---------------------------- MODULE Spec2Model ----------------------------
(***************************************************************************)
(* A model of the audio-responsive lighting engine: the mode classifier    *)
(* (src/engine/mode_manager.py), the highlight detector                    *)
(* (src/engine/highlight.py), the failsafe manager                         *)
(* (src/engine/failsafe.py), the realtime / daemon control loops           *)
(* (src/engine/main.py, src/engine/daemon.py), the feature extraction      *)
(* (src/engine/features.py) and the output encoders                        *)
(* (src/engine/outputs/udp_pixel_sender.py, artnet_sender.py).             *)
(*                                                                         *)
(* Units.  Python floats are modelled by scaled integers:                  *)
(*   time              1 unit = 0.1 s                                      *)
(*   band ratios, flux,                                                    *)
(*   onset_density     1 unit = 0.01   (percent)                           *)
(*   rms               1 unit = 0.00001                                    *)
(*   mode scores       1 unit = 0.01                                       *)
(*   highlight score,                                                      *)
(*   thresholds        1 unit = 0.001  (per mille)                         *)
(*   intensity         1 unit = 0.001  (per mille)                         *)
(* The inputs are drawn from sets on which every division of the code is   *)
(* exact in these units.                                                   *)
(*                                                                         *)
(* An Optional[float] of the code is a sequence of length at most one:     *)
(* None is << >> and the value x is << x >>.                               *)
(***************************************************************************)
EXTENDS Integers, Sequences, FiniteSets, TLC

VARIABLES
    clock,              \* the timestamp (now) of the latest call / tick
    \* ---- ModeManager (mode_manager.py)
    mm_settings,        \* ModeManager.settings
    current_mode,       \* ModeManager.current_mode
    candidate,          \* ModeManager._candidate        (Optional)
    candidate_since,    \* ModeManager._candidate_since  (Optional)
    runMode,            \* history: scoring argmax of the latest update (Optional)
    runSince,           \* history: time of the first update of the current
                        \*          uninterrupted run of that argmax (Optional)
    prevMode,           \* history: current_mode before the latest update
    mmFeat,             \* history: feat of the latest update (Optional)
    \* ---- HighlightDetector (highlight.py)
    hl_settings,        \* HighlightDetector.settings
    hl_state,           \* HighlightDetector.state
    last_transition_time, \* HighlightDetector._last_transition_time (Optional)
    hlCall,             \* history: the (feat, mode) of the latest update (Optional)
    hlRet,              \* history: the value the latest update returned (Optional)
    hlPrev,             \* history: hl_state before the latest update
    hlFirstMusic,       \* history: time of the first MUSIC-mode update (Optional)
    hlLastTrans,        \* history: time of the latest transition made by the
                        \*          transition table (Optional)
    hlLeft,             \* history: a non-MUSIC update came after hlLastTrans
    hlConst,            \* history: the score all updates so far were called
                        \*          with, all in MUSIC mode (Optional; -1 when
                        \*          a mode or a score differed)
    hlChanges,          \* history: state changes of such a run (counted to 2)
    \* ---- FailsafeManager (failsafe.py)
    fs_cfg,             \* the constructor's arguments (hold_seconds, ...)
    failure_time,       \* FailsafeManager._failure_time   (Optional)
    recovery_time,      \* FailsafeManager._recovery_time  (Optional)
    fs_state,           \* FailsafeManager.state
    fsOp,               \* history: the latest call, "sent", "fail" or "get" (Optional)
    fsRet,              \* history: what the latest get_intensity returned (Optional)
    fsOnset,            \* history: time of the first on_frame_fail since the
                        \*          latest on_frame_sent (Optional)
    fsRefail,           \* history: a further on_frame_fail came during the failure
    fsRecovered,        \* history: the stage in which the latest on_frame_sent
                        \*          ended a failure, until the next failure (Optional)
    fsRepeat,           \* history: the latest call was a get_intensity that
                        \*          directly followed one with the same now
    fsSeen,             \* history: <<stage, intensity>> of the latest two
                        \*          get_intensity calls of the current failure
    \* ---- the control loops (main.py run_realtime, daemon.py DaemonLoop)
    loop,               \* which loop runs: "realtime", "daemon" or "none"
    pc,                 \* "loop": at the head of the while; "returned"; "raised"
    result,             \* the value the loop returned (Optional)
    error,              \* the exception a tick raised (Optional)
    signal_kind,        \* run_realtime: the content of the frames of x
    n_samples,          \* run_realtime: len(x)
    samples_per_frame,  \* samples_per_frame
    max_seconds,        \* run_realtime: max_seconds (Optional)
    start_time,         \* run_realtime: start_time
    read_pos,           \* run_realtime: read_pos
    prev_mag,           \* prev_mag / DaemonLoop.prev_mag (Optional)
    frames,             \* frames / DaemonLoop.frames
    running,            \* DaemonLoop.running
    last_cfg_mtime,     \* DaemonLoop._last_cfg_mtime (Optional)
    file_mtime,         \* environment: mtime of the configuration file (Optional)
    file_ok,            \* environment: load_config() parses the file
    file_cfg,           \* environment: the dict load_config() parses from it
    ticks,              \* history: number of loop bodies entered
    tick_feat,          \* feat of the latest tick (Optional)
    stages,             \* history: the stages the latest tick ran, in order
    sent_frames,        \* history: the frames the loop handed to send_frame
    \* ---- the helper functions applied on their own
    fn,                 \* the function applied last ("none" before any call)
    fnIn,               \* its arguments
    fnOut               \* what it returned, raised or emitted

modeVars == <<mm_settings, current_mode, candidate, candidate_since,
              runMode, runSince, prevMode, mmFeat>>

hlVars == <<hl_settings, hl_state, last_transition_time,
            hlCall, hlRet, hlPrev, hlFirstMusic, hlLastTrans, hlLeft,
            hlConst, hlChanges>>

fsVars == <<fs_cfg, failure_time, recovery_time, fs_state,
            fsOp, fsRet, fsOnset, fsRefail, fsRecovered, fsRepeat,
            fsSeen>>

loopVars == <<loop, pc, result, error, signal_kind, n_samples,
              samples_per_frame, max_seconds, start_time, read_pos, prev_mag,
              frames, running, last_cfg_mtime, file_mtime, file_ok, file_cfg,
              ticks, tick_feat, stages, sent_frames>>

fnVars == <<fn, fnIn, fnOut>>

vars == <<clock, modeVars, hlVars, fsVars, loopVars, fnVars>>

(***************************************************************************)
(* Bounds of the model.                                                    *)
(***************************************************************************)
MaxTime == 7

Times == 0 .. MaxTime

(***************************************************************************)
(* Optional values and Python truthiness.                                  *)
(***************************************************************************)
None == << >>

Some(x) == << x >>

Val(o) == o[1]

\* `o or d` for an Optional[float] o: None and 0.0 are both falsy.
OrElse(o, d) == IF o = None \/ Val(o) = 0 THEN d ELSE Val(o)

\* feat.get(key, 0.0)
Get(feat, key) == IF key \in DOMAIN feat THEN feat[key] ELSE 0

Min(a, b) == IF a <= b THEN a ELSE b

Max(a, b) == IF a >= b THEN a ELSE b

\* math.ceil(a / b) for a >= 0, b > 0
CeilDiv(a, b) == (a + b - 1) \div b

\* The Python slice s[a:b] of a bytes object (0-based, clipped at the end).
Slice(s, a, b) == SubSeq(s, a + 1, Min(b, Len(s)))

\* The lists of at most n items drawn from S.
RECURSIVE SeqsUpTo(_, _)
SeqsUpTo(S, n) ==
    IF n = 0 THEN { << >> }
    ELSE SeqsUpTo(S, n - 1)
           \cup { Append(q, x) : q \in SeqsUpTo(S, n - 1), x \in S }

(***************************************************************************)
(* config/settings.py                                                      *)
(***************************************************************************)
RMS_SILENCE_THRESHOLD == 10

SPEECH_MID_PROP == 45

MUSIC_HIGH_PROP == 30

MUSIC_ONSET_DENSITY == 8

MODE_HOLD_SECONDS == 6

HIGHLIGHT_WEIGHT_RMS == 3

HIGHLIGHT_WEIGHT_BAND_HIGH == 3

HIGHLIGHT_WEIGHT_FLUX == 4

HIGHLIGHT_THRESHOLD == 650

DROP_THRESHOLD == 250

HIGHLIGHT_HYSTERESIS == 80

HIGHLIGHT_COOLDOWN_SECONDS == 3

\* The settings dict run_realtime and DaemonLoop hand to HighlightDetector.
DefaultHighlightSettings ==
    [ HIGHLIGHT_THRESHOLD        |-> HIGHLIGHT_THRESHOLD,
      DROP_THRESHOLD             |-> DROP_THRESHOLD,
      HIGHLIGHT_HYSTERESIS       |-> HIGHLIGHT_HYSTERESIS,
      HIGHLIGHT_COOLDOWN_SECONDS |-> HIGHLIGHT_COOLDOWN_SECONDS,
      HIGHLIGHT_WEIGHT_RMS       |-> HIGHLIGHT_WEIGHT_RMS,
      HIGHLIGHT_WEIGHT_BAND_HIGH |-> HIGHLIGHT_WEIGHT_BAND_HIGH,
      HIGHLIGHT_WEIGHT_FLUX      |-> HIGHLIGHT_WEIGHT_FLUX ]

\* The settings dict run_realtime and DaemonLoop hand to ModeManager.
DefaultModeSettings ==
    [ MODE_HOLD_SECONDS     |-> MODE_HOLD_SECONDS,
      RMS_SILENCE_THRESHOLD |-> RMS_SILENCE_THRESHOLD,
      SPEECH_MID_PROP       |-> SPEECH_MID_PROP,
      MUSIC_HIGH_PROP       |-> MUSIC_HIGH_PROP,
      MUSIC_ONSET_DENSITY   |-> MUSIC_ONSET_DENSITY ]

(***************************************************************************)
(* ModeManager                                                             *)
(***************************************************************************)
\* ModeManager.MODES, in declaration order (the order of the scores dict).
MODES == << "IDLE", "SPEECH", "MUSIC" >>

ModeSet == { MODES[i] : i \in DOMAIN MODES }

\* The high-band bonus threshold written into _score_modes.
HighBonusThreshold == 50

\* A plausible slip in _score_modes: the high-band bonus is given from
\* band_high = 0.5 on.
ScoreModes_BonusInclusive(feat, settings) ==
    LET mid   == Get(feat, "band_mid")
        high  == Get(feat, "band_high")
        rms   == Get(feat, "rms")
        onset == Get(feat, "onset_density")
        idle   == IF rms < settings.RMS_SILENCE_THRESHOLD THEN 100 ELSE 0
        speech == IF mid > settings.SPEECH_MID_PROP
                     /\ onset < settings.MUSIC_ONSET_DENSITY
                  THEN 100 + (mid - settings.SPEECH_MID_PROP) ELSE 0
        music1 == IF onset > settings.MUSIC_ONSET_DENSITY
                     /\ high > settings.MUSIC_HIGH_PROP
                  THEN 100 + (onset - settings.MUSIC_ONSET_DENSITY) ELSE 0
        music2 == IF high >= HighBonusThreshold THEN 50 ELSE 0
    IN  [ m \in ModeSet |->
            CASE m = "IDLE"   -> idle
              [] m = "SPEECH" -> speech
              [] m = "MUSIC"  -> music1 + music2 ]

\* ModeManager._score_modes: the score of every mode, unscored modes stay 0.
ScoreModes(feat, settings) ==
    LET mid   == Get(feat, "band_mid")
        high  == Get(feat, "band_high")
        rms   == Get(feat, "rms")
        onset == Get(feat, "onset_density")
        idle   == IF rms < settings.RMS_SILENCE_THRESHOLD THEN 100 ELSE 0
        speech == IF mid > settings.SPEECH_MID_PROP
                     /\ onset < settings.MUSIC_ONSET_DENSITY
                  THEN 100 + (mid - settings.SPEECH_MID_PROP) ELSE 0
        music1 == IF onset > settings.MUSIC_ONSET_DENSITY
                     /\ high > settings.MUSIC_HIGH_PROP
                  THEN 100 + (onset - settings.MUSIC_ONSET_DENSITY) ELSE 0
        music2 == IF high > HighBonusThreshold THEN 50 ELSE 0
    IN  [ m \in ModeSet |->
            CASE m = "IDLE"   -> idle
              [] m = "SPEECH" -> speech
              [] m = "MUSIC"  -> music1 + music2 ]

\* A plausible slip in the choice of the candidate: of several modes with the
\* highest score the last one in dict order wins.
ArgMaxMode_LastWins(scores) ==
    LET best == CHOOSE i \in DOMAIN MODES :
                   /\ \A j \in DOMAIN MODES : scores[MODES[j]] <= scores[MODES[i]]
                   /\ \A j \in DOMAIN MODES :
                        scores[MODES[j]] = scores[MODES[i]] => j <= i
    IN  MODES[best]

\* max(scores.items(), key=score)[0]: the first mode, in dict order, whose
\* score no other mode exceeds.
ArgMaxMode(scores) ==
    LET best == CHOOSE i \in DOMAIN MODES :
                   /\ \A j \in DOMAIN MODES : scores[MODES[j]] <= scores[MODES[i]]
                   /\ \A j \in DOMAIN MODES :
                        scores[MODES[j]] = scores[MODES[i]] => i <= j
    IN  MODES[best]

\* The candidate ModeManager.update computes for a feature dict.
Candidate(feat, settings) == ArgMaxMode(ScoreModes(feat, settings))

\* A plausible slip in update: the hold timer is not restarted when the
\* candidate changes (it is started once, for the first candidate).
MM_update_NoTimerReset(feat, now) ==
    LET cand == Candidate(feat, mm_settings)
        cs1  == IF candidate = None THEN Some(now) ELSE candidate_since
        hold == mm_settings.MODE_HOLD_SECONDS
    IN  /\ candidate' = Some(cand)
        /\ candidate_since' = cs1
        /\ current_mode' =
             IF cand = current_mode THEN current_mode
             ELSE IF (now - OrElse(cs1, now)) >= hold /\ cand # current_mode
                  THEN cand
                  ELSE current_mode

\* A plausible slip in update: the hold timer is restarted only for a
\* candidate that differs from the active mode.
MM_update_ResetOffActive(feat, now) ==
    LET cand == Candidate(feat, mm_settings)
        cs1  == IF Some(cand) # candidate /\ cand # current_mode
                THEN Some(now) ELSE candidate_since
        hold == mm_settings.MODE_HOLD_SECONDS
    IN  /\ candidate' = Some(cand)
        /\ candidate_since' = cs1
        /\ current_mode' =
             IF cand = current_mode THEN current_mode
             ELSE IF (now - OrElse(cs1, now)) >= hold /\ cand # current_mode
                  THEN cand
                  ELSE current_mode

\* ModeManager.update(feat, now); the value returned is current_mode'.
MM_update(feat, now) ==
    LET cand == Candidate(feat, mm_settings)
        \* if candidate != self._candidate: restart the timer
        cs1  == IF Some(cand) # candidate THEN Some(now) ELSE candidate_since
        hold == mm_settings.MODE_HOLD_SECONDS
    IN  /\ candidate' = Some(cand)
        /\ candidate_since' = cs1
        /\ current_mode' =
             IF cand = current_mode THEN current_mode
             ELSE IF (now - OrElse(cs1, now)) >= hold /\ cand # current_mode
                  THEN cand
                  ELSE current_mode

(***************************************************************************)
(* HighlightDetector                                                       *)
(***************************************************************************)
\* HighlightDetector.compute_score, in per mille.
ComputeScore(feat, settings) ==
    LET rms       == Get(feat, "rms")
        band_high == Get(feat, "band_high")
        flux      == Get(feat, "flux")
        rms_norm  == Min(1000, rms \div 10)      \* min(1.0, rms / 0.1)
        high_norm == band_high * 10
        flux_norm == Min(1000, flux * 20)        \* min(1.0, flux / 0.5)
        w_rms     == settings.HIGHLIGHT_WEIGHT_RMS
        w_high    == settings.HIGHLIGHT_WEIGHT_BAND_HIGH
        w_flux    == settings.HIGHLIGHT_WEIGHT_FLUX
        sum       == w_rms + w_high + w_flux
        total_weight == IF sum <= 0 THEN 10 ELSE sum
        score     == (w_rms * rms_norm + w_high * high_norm + w_flux * flux_norm)
                        \div total_weight
    IN  Min(1000, Max(0, score))

\* A plausible slip in the transition table: HIGHLIGHT and DROP are left at
\* the plain thresholds, without the hysteresis margin.
TableNext_NoHysteresis(state, score, settings) ==
    LET threshold   == settings.HIGHLIGHT_THRESHOLD
        drop_thresh == settings.DROP_THRESHOLD
    IN  CASE state = "IDLE" ->
               IF score >= threshold THEN "HIGHLIGHT"
               ELSE IF score < drop_thresh THEN "DROP"
               ELSE "IDLE"
          [] state = "HIGHLIGHT" ->
               IF score < threshold
               THEN (IF score < drop_thresh THEN "DROP" ELSE "IDLE")
               ELSE "HIGHLIGHT"
          [] state = "DROP" ->
               IF score >= drop_thresh THEN "IDLE" ELSE "DROP"

\* A plausible slip in the transition table: the hysteresis margin is applied
\* with the wrong sign, so HIGHLIGHT is left below threshold + hyst and DROP
\* at drop_thresh - hyst.
TableNext_InvertedHysteresis(state, score, settings) ==
    LET threshold   == settings.HIGHLIGHT_THRESHOLD
        drop_thresh == settings.DROP_THRESHOLD
        hyst        == settings.HIGHLIGHT_HYSTERESIS
    IN  CASE state = "IDLE" ->
               IF score >= threshold THEN "HIGHLIGHT"
               ELSE IF score < drop_thresh THEN "DROP"
               ELSE "IDLE"
          [] state = "HIGHLIGHT" ->
               IF score < threshold + hyst
               THEN (IF score < drop_thresh THEN "DROP" ELSE "IDLE")
               ELSE "HIGHLIGHT"
          [] state = "DROP" ->
               IF score >= drop_thresh - hyst THEN "IDLE" ELSE "DROP"

\* The state the transition table of update moves to (the same state when no
\* row applies).
TableNext(state, score, settings) ==
    LET threshold   == settings.HIGHLIGHT_THRESHOLD
        drop_thresh == settings.DROP_THRESHOLD
        hyst        == settings.HIGHLIGHT_HYSTERESIS
        threshold_go == CASE state = "HIGHLIGHT" -> threshold - hyst
                          [] state = "DROP"      -> drop_thresh + hyst
                          [] OTHER               -> threshold
    IN  CASE state = "IDLE" ->
               IF score >= threshold THEN "HIGHLIGHT"
               ELSE IF score < drop_thresh THEN "DROP"
               ELSE "IDLE"
          [] state = "HIGHLIGHT" ->
               IF score < threshold_go
               THEN (IF score < drop_thresh THEN "DROP" ELSE "IDLE")
               ELSE "HIGHLIGHT"
          [] state = "DROP" ->
               IF score >= drop_thresh + hyst THEN "IDLE" ELSE "DROP"

\* A plausible slip in update: the cooldown is applied only to leaving
\* HIGHLIGHT or DROP, not to leaving IDLE.
HL_update_NoIdleCooldown(feat, mode, now) ==
    IF mode # "MUSIC"
    THEN /\ hl_state' = "IDLE"
         /\ UNCHANGED last_transition_time
    ELSE LET ltt      == OrElse(last_transition_time, now)
             score    == ComputeScore(feat, hl_settings)
             cooldown == hl_settings.HIGHLIGHT_COOLDOWN_SECONDS
             elapsed  == now - ltt
             next     == TableNext(hl_state, score, hl_settings)
         IN  IF elapsed < cooldown /\ hl_state # "IDLE"
             THEN /\ hl_state' = hl_state
                  /\ last_transition_time' = Some(ltt)
             ELSE /\ hl_state' = next
                  /\ last_transition_time' =
                        IF next # hl_state THEN Some(now) ELSE Some(ltt)

\* A plausible slip in update: a non-MUSIC mode honours the cooldown like
\* every other transition.
HL_update_GatedReset(feat, mode, now) ==
    LET ltt      == OrElse(last_transition_time, now)
        score    == ComputeScore(feat, hl_settings)
        cooldown == hl_settings.HIGHLIGHT_COOLDOWN_SECONDS
        elapsed  == now - ltt
        next     == IF mode # "MUSIC" THEN "IDLE"
                    ELSE TableNext(hl_state, score, hl_settings)
    IN  IF elapsed < cooldown
        THEN /\ hl_state' = hl_state
             /\ last_transition_time' = Some(ltt)
        ELSE /\ hl_state' = next
             /\ last_transition_time' =
                   IF next # hl_state THEN Some(now) ELSE Some(ltt)

\* A plausible slip in update: the call that initialises the timer returns
\* without evaluating the transition table.
HL_update_LazyInitReturns(feat, mode, now) ==
    IF mode # "MUSIC"
    THEN /\ hl_state' = "IDLE"
         /\ UNCHANGED last_transition_time
    ELSE LET ltt      == OrElse(last_transition_time, now)
             score    == ComputeScore(feat, hl_settings)
             cooldown == hl_settings.HIGHLIGHT_COOLDOWN_SECONDS
             elapsed  == now - ltt
             next     == TableNext(hl_state, score, hl_settings)
         IN  IF elapsed < cooldown \/ last_transition_time = None
             THEN /\ hl_state' = hl_state
                  /\ last_transition_time' = Some(ltt)
             ELSE /\ hl_state' = next
                  /\ last_transition_time' =
                        IF next # hl_state THEN Some(now) ELSE Some(ltt)

\* A plausible slip in update: a transition back to IDLE does not stamp the
\* timer.
HL_update_NoStampToIdle(feat, mode, now) ==
    IF mode # "MUSIC"
    THEN /\ hl_state' = "IDLE"
         /\ UNCHANGED last_transition_time
    ELSE LET ltt      == OrElse(last_transition_time, now)
             score    == ComputeScore(feat, hl_settings)
             cooldown == hl_settings.HIGHLIGHT_COOLDOWN_SECONDS
             elapsed  == now - ltt
             next     == TableNext(hl_state, score, hl_settings)
         IN  IF elapsed < cooldown
             THEN /\ hl_state' = hl_state
                  /\ last_transition_time' = Some(ltt)
             ELSE /\ hl_state' = next
                  /\ last_transition_time' =
                        IF next # hl_state /\ next # "IDLE"
                        THEN Some(now) ELSE Some(ltt)

\* HighlightDetector.update(feat, mode, now); the value returned is hl_state'.
HL_update(feat, mode, now) ==
    IF mode # "MUSIC"
    THEN \* forced to IDLE; the timer is not touched
         /\ hl_state' = "IDLE"
         /\ UNCHANGED last_transition_time
    ELSE LET \* self._last_transition_time = self._last_transition_time or now
             ltt      == OrElse(last_transition_time, now)
             score    == ComputeScore(feat, hl_settings)
             cooldown == hl_settings.HIGHLIGHT_COOLDOWN_SECONDS
             elapsed  == now - ltt
             next     == TableNext(hl_state, score, hl_settings)
         IN  IF elapsed < cooldown
             THEN /\ hl_state' = hl_state
                  /\ last_transition_time' = Some(ltt)
             ELSE /\ hl_state' = next
                  /\ last_transition_time' =
                        IF next # hl_state THEN Some(now) ELSE Some(ltt)

\* HighlightDetector.__init__(settings)
HLFresh(settings) ==
    /\ hl_settings = settings
    /\ hl_state = "IDLE"
    /\ last_transition_time = None
    /\ hlCall = None
    /\ hlRet = None
    /\ hlPrev = "IDLE"
    /\ hlFirstMusic = None
    /\ hlLastTrans = None
    /\ hlLeft = FALSE
    /\ hlConst = None
    /\ hlChanges = 0

(***************************************************************************)
(* FailsafeManager                                                         *)
(***************************************************************************)
\* The default arguments of FailsafeManager.__init__.
DefaultFailsafeConfig ==
    [ hold_seconds          |-> 15,
      ambient_seconds       |-> 50,
      black_seconds         |-> 150,
      ambient_intensity     |-> 200,
      recovery_hold_seconds |-> 5 ]

\* A plausible slip in get_intensity: the black stage holds the ambient
\* intensity until it is over, instead of fading.
FS_StageIntensity_NoFade(elapsed, cfg) ==
    IF elapsed < cfg.hold_seconds
    THEN << "LAST_HOLD", 1000 >>
    ELSE IF elapsed < cfg.hold_seconds + cfg.ambient_seconds
    THEN << "DIM_AMBIENT", cfg.ambient_intensity >>
    ELSE IF cfg.black_seconds > 0
            /\ elapsed < cfg.hold_seconds + cfg.ambient_seconds + cfg.black_seconds
    THEN << "DIM_BLACK", cfg.ambient_intensity >>
    ELSE << "DIM_BLACK", 0 >>

\* A plausible slip in get_intensity: the black stage fades the wrong way,
\* from 0 up to the ambient intensity.
FS_StageIntensity_FadeUp(elapsed, cfg) ==
    IF elapsed < cfg.hold_seconds
    THEN << "LAST_HOLD", 1000 >>
    ELSE IF elapsed < cfg.hold_seconds + cfg.ambient_seconds
    THEN << "DIM_AMBIENT", cfg.ambient_intensity >>
    ELSE IF cfg.black_seconds > 0
            /\ elapsed < cfg.hold_seconds + cfg.ambient_seconds + cfg.black_seconds
    THEN << "DIM_BLACK",
            (cfg.ambient_intensity
               * (elapsed - cfg.hold_seconds - cfg.ambient_seconds))
              \div cfg.black_seconds >>
    ELSE << "DIM_BLACK", 0 >>

\* get_intensity's stage decision: <<stage, intensity>> for a failure that
\* began `elapsed` ago.
FS_StageIntensity(elapsed, cfg) ==
    IF elapsed < cfg.hold_seconds
    THEN << "LAST_HOLD", 1000 >>
    ELSE IF elapsed < cfg.hold_seconds + cfg.ambient_seconds
    THEN << "DIM_AMBIENT", cfg.ambient_intensity >>
    ELSE IF cfg.black_seconds > 0
            /\ elapsed < cfg.hold_seconds + cfg.ambient_seconds + cfg.black_seconds
    THEN \* ambient_intensity * (1.0 - progress),
         \* progress = (elapsed - hold - ambient) / black
         << "DIM_BLACK",
            (cfg.ambient_intensity
               * (cfg.black_seconds
                    - (elapsed - cfg.hold_seconds - cfg.ambient_seconds)))
              \div cfg.black_seconds >>
    ELSE << "DIM_BLACK", 0 >>

\* A plausible slip in on_frame_sent: the failure is cleared but the stage
\* is left for the next get_intensity to refresh.
FS_on_frame_sent_StaleStage(now) ==
    IF failure_time # None
    THEN /\ failure_time' = None
         /\ recovery_time' = Some(now)
         /\ UNCHANGED fs_state
    ELSE UNCHANGED <<failure_time, recovery_time, fs_state>>

\* A plausible slip in on_frame_sent: the recovery is recorded on every
\* successful frame, failure or not.
FS_on_frame_sent_Unconditional(now) ==
    /\ failure_time' = None
    /\ recovery_time' = Some(now)
    /\ fs_state' = "NORMAL"

\* FailsafeManager.on_frame_sent(now)
FS_on_frame_sent(now) ==
    IF failure_time # None
    THEN /\ failure_time' = None
         /\ recovery_time' = Some(now)
         /\ fs_state' = "NORMAL"
    ELSE UNCHANGED <<failure_time, recovery_time, fs_state>>

\* A plausible slip in on_frame_fail: every reported failure restarts the
\* failure timer.
FS_on_frame_fail_Restarts(now) ==
    /\ failure_time' = Some(now)
    /\ fs_state' = "LAST_HOLD"
    /\ UNCHANGED recovery_time

\* A plausible slip in on_frame_fail: the onset is recorded but the stage is
\* left for the next get_intensity to refresh.
FS_on_frame_fail_StaleStage(now) ==
    IF failure_time = None
    THEN /\ failure_time' = Some(now)
         /\ UNCHANGED <<recovery_time, fs_state>>
    ELSE UNCHANGED <<failure_time, recovery_time, fs_state>>

\* FailsafeManager.on_frame_fail(now)
FS_on_frame_fail(now) ==
    IF failure_time = None
    THEN /\ failure_time' = Some(now)
         /\ fs_state' = "LAST_HOLD"
         /\ UNCHANGED recovery_time
    ELSE UNCHANGED <<failure_time, recovery_time, fs_state>>

\* A plausible slip in get_intensity: the hold boundary is inclusive.
FS_get_intensity_HoldInclusive(now) ==
    /\ UNCHANGED <<failure_time, recovery_time>>
    /\ IF failure_time = None
       THEN /\ fs_state' = "NORMAL"
            /\ fsRet' = Some(1000)
       ELSE LET elapsed == now - Val(failure_time)
                si == IF elapsed <= fs_cfg.hold_seconds
                      THEN << "LAST_HOLD", 1000 >>
                      ELSE FS_StageIntensity(elapsed, fs_cfg)
            IN  /\ fs_state' = si[1]
                /\ fsRet' = Some(si[2])

\* A plausible slip in get_intensity: a query in the NORMAL stage consumes
\* the recovery timestamp.
FS_get_intensity_ConsumesRecovery(now) ==
    /\ UNCHANGED failure_time
    /\ IF failure_time = None
       THEN /\ fs_state' = "NORMAL"
            /\ fsRet' = Some(1000)
            /\ recovery_time' = None
       ELSE LET elapsed == now - Val(failure_time)
                si == FS_StageIntensity(elapsed, fs_cfg)
            IN  /\ fs_state' = si[1]
                /\ fsRet' = Some(si[2])
                /\ UNCHANGED recovery_time

\* FailsafeManager.get_intensity(now); fsRet' is the value returned.
FS_get_intensity(now) ==
    /\ UNCHANGED <<failure_time, recovery_time>>
    /\ IF failure_time = None
       THEN /\ fs_state' = "NORMAL"
            /\ fsRet' = Some(1000)
       ELSE LET elapsed == now - Val(failure_time)
                si == FS_StageIntensity(elapsed, fs_cfg)
            IN  /\ fs_state' = si[1]
                /\ fsRet' = Some(si[2])

\* FailsafeManager.__init__(...)
FSFresh(cfg) ==
    /\ fs_cfg = cfg
    /\ failure_time = None
    /\ recovery_time = None
    /\ fs_state = "NORMAL"
    /\ fsOp = None
    /\ fsRet = None
    /\ fsOnset = None
    /\ fsRefail = FALSE
    /\ fsRecovered = None
    /\ fsRepeat = FALSE
    /\ fsSeen = <<>>

(***************************************************************************)
(* Streaming feature extraction (_frame_features_from_buffer, the same in  *)
(* main.py and daemon.py).  A frame is given by its length n, its rms and  *)
(* the magnitudes of its windowed FFT summed per band: below 20 Hz, low    *)
(* [20,300), mid [300,2000), high [2000,..).  A magnitude snapshot keeps   *)
(* these with the shape of the spectrum, n // 2 + 1 bins.                  *)
(***************************************************************************)
SumSeq(m) == IF Len(m) = 0 THEN 0 ELSE m[1] + m[2] + m[3] + m[4]

\* The flux the code computes against an all-zero previous spectrum: the
\* positive change divided by the 1e-12 guard alone.
FluxSaturated == 1000000

\* mag.shape for a frame of n samples: np.fft.rfft gives n // 2 + 1 bins.
ShapeOf(n) == n \div 2 + 1

\* The positive change between two spectra over the sum of the old one.
FluxBetween(old, mag) ==
    LET pos == Max(0, mag[1] - old[1]) + Max(0, mag[2] - old[2])
                 + Max(0, mag[3] - old[3]) + Max(0, mag[4] - old[4])
    IN  IF SumSeq(old) = 0
        THEN (IF pos = 0 THEN 0 ELSE FluxSaturated)
        ELSE (pos * 100) \div SumSeq(old)

\* _frame_features_from_buffer that compares the spectra whatever their shapes.
FrameFeatures_NoShapeCheck(frame, prev) ==
    IF frame.n <= 0
    THEN [ feat |-> [rms |-> 0, band_low |-> 0, band_mid |-> 0,
                     band_high |-> 0, flux |-> 0],
           mag  |-> None ]
    ELSE LET mag   == frame.mag
             total == SumSeq(mag)
             ratio(b) == IF total = 0 THEN 0 ELSE (mag[b] * 100) \div total
             flux  == IF prev = None THEN 0
                      ELSE FluxBetween(Val(prev).band, mag)
         IN  [ feat |-> [rms |-> frame.rms, band_low |-> ratio(2),
                         band_mid |-> ratio(3), band_high |-> ratio(4),
                         flux |-> flux],
               mag  |-> Some([shape |-> ShapeOf(frame.n), band |-> mag]) ]

\* _frame_features_from_buffer that snapshots an empty frame as one zero bin.
FrameFeatures_EmptySnapshot(frame, prev) ==
    IF frame.n <= 0
    THEN [ feat |-> [rms |-> 0, band_low |-> 0, band_mid |-> 0,
                     band_high |-> 0, flux |-> 0],
           mag  |-> Some([shape |-> 1, band |-> <<0, 0, 0, 0>>]) ]
    ELSE FrameFeatures_NoShapeCheck(frame,
             IF prev # None /\ Val(prev).shape # ShapeOf(frame.n)
             THEN None ELSE prev)

\* _frame_features_from_buffer(frame, sr, prev_mag): (feat, mag)
FrameFeatures(frame, prev) ==
    IF frame.n <= 0
    THEN [ feat |-> [rms |-> 0, band_low |-> 0, band_mid |-> 0,
                     band_high |-> 0, flux |-> 0],
           mag  |-> None ]
    ELSE LET mag   == frame.mag
             total == SumSeq(mag)
             ratio(b) == IF total = 0 THEN 0 ELSE (mag[b] * 100) \div total
             flux  == IF prev = None \/ Val(prev).shape # ShapeOf(frame.n)
                      THEN 0
                      ELSE FluxBetween(Val(prev).band, mag)
         IN  [ feat |-> [rms |-> frame.rms, band_low |-> ratio(2),
                         band_mid |-> ratio(3), band_high |-> ratio(4),
                         flux |-> flux],
               mag  |-> Some([shape |-> ShapeOf(frame.n), band |-> mag]) ]

(***************************************************************************)
(* Batch spectral flux (features.py).  The spectrogram S is the sequence   *)
(* of its columns (frames), each a sequence of two bins; flux in percent.  *)
(***************************************************************************)
\* A column of S / (np.sum(S, axis=0, keepdims=True) + 1e-12)
NormColumn(col) ==
    LET total == col[1] + col[2]
    IN  [ b \in 1 .. 2 |-> IF total = 0 THEN 0 ELSE (col[b] * 100) \div total ]

\* spectral_flux without the leading 0.0 (the raw np.diff row).
SpectralFlux_NoLeadingZero(S) ==
    [ t \in 1 .. Len(S) - 1 |->
        Max(0, NormColumn(S[t + 1])[1] - NormColumn(S[t])[1])
          + Max(0, NormColumn(S[t + 1])[2] - NormColumn(S[t])[2]) ]

\* spectral_flux(S)
SpectralFlux(S) ==
    << 0 >> \o
    [ t \in 1 .. Len(S) - 1 |->
        Max(0, NormColumn(S[t + 1])[1] - NormColumn(S[t])[1])
          + Max(0, NormColumn(S[t + 1])[2] - NormColumn(S[t])[2]) ]

(***************************************************************************)
(* The control loops.  Both call mm.update_highlight(feat, detector, now)  *)
(* right after mm.update; ModeManager defines no such method, so the call  *)
(* raises AttributeError and the rest of the tick (the intensity lookup,   *)
(* the encoding and send_frame, the frame counter, the sleep) never runs.  *)
(* run_realtime lets the exception escape; DaemonLoop.run catches it,      *)
(* logs it and returns 1.                                                  *)
(***************************************************************************)
SAMPLE_RATE == 44100

TARGET_FPS == 30

\* Frame contents: silence, a mid-heavy frame, a high-heavy frame.
FrameKinds ==
    { [rms |-> 0,    mag |-> <<0, 0, 0, 0>>],
      [rms |-> 1000, mag |-> <<0, 2, 6, 2>>],
      [rms |-> 2000, mag |-> <<0, 1, 2, 7>>] }

\* DaemonLoop._generate_demo_frame: 0.3 * sin(2 pi 440 t), all of it in the
\* mid band.
DemoFrame ==
    [ n |-> SAMPLE_RATE \div TARGET_FPS, rms |-> 21213, mag |-> <<0, 0, 10, 0>> ]

\* No loop is running (the classifiers are driven directly).
NoLoop ==
    /\ loop = "none"
    /\ pc = "returned"
    /\ result = None
    /\ error = None
    /\ signal_kind = [rms |-> 0, mag |-> <<0, 0, 0, 0>>]
    /\ n_samples = 0
    /\ samples_per_frame = 1
    /\ max_seconds = None
    /\ start_time = 0
    /\ read_pos = 0
    /\ prev_mag = None
    /\ frames = 0
    /\ running = FALSE
    /\ last_cfg_mtime = None
    /\ file_mtime = None
    /\ file_ok = TRUE
    /\ file_cfg = [MODE_HOLD_SECONDS |-> MODE_HOLD_SECONDS]
    /\ ticks = 0
    /\ tick_feat = None
    /\ stages = << >>
    /\ sent_frames = << >>

\* No helper function has been applied on its own.
NoCall ==
    /\ fn = "none"
    /\ fnIn = << >>
    /\ fnOut = << >>

\* x[read_pos:end], zero-padded to samples_per_frame.
ReadFrame ==
    LET end == Min(read_pos + samples_per_frame, n_samples)
    IN  IF end > read_pos
        THEN [n |-> samples_per_frame, rms |-> signal_kind.rms,
              mag |-> signal_kind.mag]
        ELSE [n |-> samples_per_frame, rms |-> 0, mag |-> <<0, 0, 0, 0>>]

\* One pass through the body of run_realtime's while loop.
RealtimeTick ==
    /\ loop = "realtime"
    /\ pc = "loop"
    /\ \E loop_start \in Times, now \in Times :
          /\ clock <= loop_start
          /\ loop_start <= now
          /\ ~ (max_seconds # None /\ loop_start - start_time >= Val(max_seconds))
          /\ LET ff == FrameFeatures(ReadFrame, prev_mag)
             IN  /\ prev_mag' = ff.mag
                 /\ tick_feat' = Some(ff.feat)
                 /\ MM_update(ff.feat, now)
                 /\ prevMode' = current_mode
                 /\ mmFeat' = Some(ff.feat)
                 /\ runMode' = Some(Candidate(ff.feat, mm_settings))
                 /\ runSince' = IF runMode = Some(Candidate(ff.feat, mm_settings))
                                THEN runSince ELSE Some(now)
          /\ clock' = now
    \* mm.update_highlight(...) raises AttributeError, which escapes
    /\ error' = Some("AttributeError")
    /\ pc' = "raised"
    /\ ticks' = ticks + 1
    /\ stages' = << "feature", "mode" >>
    /\ UNCHANGED <<mm_settings, hlVars, fsVars, fnVars, sent_frames, loop, result, signal_kind,
                   n_samples, samples_per_frame, max_seconds, start_time,
                   read_pos, frames, running, last_cfg_mtime, file_mtime,
                   file_ok, file_cfg>>

\* The head of run_realtime's loop finds max_seconds elapsed: break, return.
RealtimeTimeout ==
    /\ loop = "realtime"
    /\ pc = "loop"
    /\ max_seconds # None
    /\ \E loop_start \in Times :
          /\ clock <= loop_start
          /\ loop_start - start_time >= Val(max_seconds)
          /\ clock' = loop_start
    /\ pc' = "returned"
    /\ result' = Some(frames)
    /\ UNCHANGED <<modeVars, hlVars, fsVars, fnVars, tick_feat, stages,
                   sent_frames, loop, error, signal_kind,
                   n_samples, samples_per_frame, max_seconds, start_time,
                   read_pos, prev_mag, frames, running, last_cfg_mtime,
                   file_mtime, file_ok, file_cfg, ticks>>

\* The guard of _check_config_reload: the file exists and its modification
\* time is not the one recorded by the last successful load.
ReloadDue == file_mtime # None /\ last_cfg_mtime # file_mtime

\* DaemonLoop._check_config_reload: the value of _last_cfg_mtime after it.
\* (The configuration it loads is dropped.)
CheckConfigReload ==
    IF ReloadDue /\ file_ok
    THEN file_mtime
    ELSE last_cfg_mtime

\* One pass through the body of DaemonLoop.run's while loop.
DaemonTick ==
    /\ loop = "daemon"
    /\ pc = "loop"
    /\ running
    /\ \E loop_start \in Times, now \in Times :
          /\ clock <= loop_start
          /\ loop_start <= now
          /\ LET ff == FrameFeatures(DemoFrame, prev_mag)
             IN  /\ prev_mag' = ff.mag
                 /\ tick_feat' = Some(ff.feat)
                 /\ last_cfg_mtime' = CheckConfigReload
                 /\ MM_update(ff.feat, now)
                 /\ prevMode' = current_mode
                 /\ mmFeat' = Some(ff.feat)
                 /\ runMode' = Some(Candidate(ff.feat, mm_settings))
                 /\ runSince' = IF runMode = Some(Candidate(ff.feat, mm_settings))
                                THEN runSince ELSE Some(now)
          /\ clock' = now
    \* SIGTERM or SIGINT may arrive while the tick is in progress: the handler
    \* runs between two of its steps and only clears running, which the body
    \* of the tick does not read
    /\ \E signalled \in BOOLEAN : running' = (running /\ ~ signalled)
    \* self.mm.update_highlight(...) raises AttributeError; run catches it
    /\ error' = Some("AttributeError")
    /\ pc' = "returned"
    /\ result' = Some(1)
    /\ ticks' = ticks + 1
    /\ stages' = << "feature", "mode" >>
    /\ UNCHANGED <<mm_settings, hlVars, fsVars, fnVars, sent_frames, loop, signal_kind, n_samples,
                   samples_per_frame, max_seconds, start_time, read_pos,
                   frames, file_mtime, file_ok, file_cfg>>

\* DaemonLoop.run finds running cleared at the head of the loop: return 0.
DaemonStop ==
    /\ loop = "daemon"
    /\ pc = "loop"
    /\ ~ running
    /\ pc' = "returned"
    /\ result' = Some(0)
    /\ UNCHANGED <<clock, modeVars, hlVars, fsVars, fnVars, tick_feat, stages,
                   sent_frames, loop, error, signal_kind,
                   n_samples, samples_per_frame, max_seconds, start_time,
                   read_pos, prev_mag, frames, running, last_cfg_mtime,
                   file_mtime, file_ok, file_cfg, ticks>>

\* DaemonLoop._signal_handler (SIGTERM, SIGINT).
SignalHandler ==
    /\ loop = "daemon"
    /\ pc = "loop"
    /\ running
    /\ running' = FALSE
    /\ UNCHANGED <<clock, modeVars, hlVars, fsVars, fnVars, tick_feat, stages,
                   sent_frames, loop, pc, result, error,
                   signal_kind, n_samples, samples_per_frame, max_seconds,
                   start_time, read_pos, prev_mag, frames, last_cfg_mtime,
                   file_mtime, file_ok, file_cfg, ticks>>

(***************************************************************************)
(* The ModeManager driven call by call (as tests/test_mode_manager.py      *)
(* drives it), with non-decreasing, non-negative timestamps.               *)
(***************************************************************************)
\* Feature dicts: those of tests/test_mode_manager.py and a streaming one.
ModeFeats ==
    { \* music_feat of the tests
      [rms |-> 2000, band_low |-> 10, band_mid |-> 20, band_high |-> 70,
       onset_density |-> 20],
      \* the silent frame of test_no_transition_if_not_held
      [rms |-> 1, band_low |-> 80, band_mid |-> 10, band_high |-> 10,
       onset_density |-> 0],
      \* make_feat() defaults: speech
      [rms |-> 1000, band_low |-> 20, band_mid |-> 50, band_high |-> 30,
       onset_density |-> 1],
      \* nothing scores
      [rms |-> 1000, band_low |-> 40, band_mid |-> 30, band_high |-> 30,
       onset_density |-> 1],
      \* a streaming feature dict: no onset_density key
      [rms |-> 1000, band_low |-> 10, band_mid |-> 20, band_high |-> 70,
       flux |-> 0] }

\* MODE_HOLD_SECONDS of the two tests (0.2 s, 0.5 s) and no hold at all.
HoldChoices == {0, 2, 5}

\* ModeManager.__init__(settings)
ModeFresh(settings) ==
    /\ mm_settings = settings
    /\ current_mode = "IDLE"
    /\ candidate = None
    /\ candidate_since = None
    /\ runMode = None
    /\ runSince = None
    /\ prevMode = "IDLE"
    /\ mmFeat = None

ModeCreated ==
    \E settings \in { [DefaultModeSettings EXCEPT !.MODE_HOLD_SECONDS = h] :
                           h \in HoldChoices } :
        ModeFresh(settings)

\* Feature dicts as the loops build them (no onset_density key): a silent
\* frame with a dominant high band, one that scores SPEECH beside the
\* high-band bonus, and one with band_high exactly at the bonus threshold.
StreamFeats ==
    { [rms |-> 0,    band_low |-> 10, band_mid |-> 20, band_high |-> 70,
       flux |-> 0],
      [rms |-> 1000, band_low |-> 3,  band_mid |-> 46, band_high |-> 51,
       flux |-> 0],
      [rms |-> 1000, band_low |-> 20, band_mid |-> 30, band_high |-> 50,
       flux |-> 0] }

\* One call mm.update(feat, now=now).
ModeUpdate ==
    \E feat \in ModeFeats \cup StreamFeats, now \in Times :
        /\ now >= clock
        /\ MM_update(feat, now)
        /\ clock' = now
        /\ LET c == Candidate(feat, mm_settings)
           IN  /\ runMode' = Some(c)
               /\ runSince' = IF runMode = Some(c) THEN runSince ELSE Some(now)
        /\ prevMode' = current_mode
        /\ mmFeat' = Some(feat)
        /\ UNCHANGED <<mm_settings, hlVars, fsVars, loopVars, fnVars>>

ModeNext == ModeUpdate

InitMode ==
    /\ clock = 0
    /\ ModeCreated
    /\ HLFresh(DefaultHighlightSettings)
    /\ FSFresh(DefaultFailsafeConfig)
    /\ NoLoop
    /\ NoCall

SpecMode == InitMode /\ [][ModeNext]_vars

(***************************************************************************)
(* C1.  If the scoring argmax has been the same mode C on every update     *)
(* from some time t0 through the latest update at time t1, and             *)
(* t1 - t0 >= MODE_HOLD_SECONDS, then the active mode after the update at  *)
(* t1 is C.  (runSince is the earliest such t0.)                           *)
(***************************************************************************)
C1_HeldArgmaxSwitches ==
    (runMode # None /\ clock - Val(runSince) >= mm_settings.MODE_HOLD_SECONDS)
        => current_mode = Val(runMode)

\* The same statement for runs of the argmax that start at a non-zero time.
C1_HeldArgmaxSwitchesAfterZero ==
    (runMode # None /\ Val(runSince) > 0
       /\ clock - Val(runSince) >= mm_settings.MODE_HOLD_SECONDS)
        => current_mode = Val(runMode)

(***************************************************************************)
(* C2.  An update switches the active mode only to the mode that has been  *)
(* the scoring argmax on every update of an uninterrupted span of at least *)
(* MODE_HOLD_SECONDS ending at that update.                                *)
(***************************************************************************)
C2_NoSwitchBeforeHold ==
    [][ current_mode' # current_mode =>
          /\ runMode' = Some(current_mode')
          /\ clock' - Val(runSince') >= mm_settings.MODE_HOLD_SECONDS ]_vars

\* A switch has just happened under a positive hold, to an argmax whose run
\* started after an earlier update (the run was preceded by another call).
C2_Witness ==
    /\ current_mode # prevMode
    /\ mm_settings.MODE_HOLD_SECONDS > 0
    /\ runMode = Some(current_mode)
    /\ Val(runSince) > 1

(***************************************************************************)
(* The HighlightDetector driven call by call (as tests/test_highlight.py   *)
(* drives it), with non-decreasing, non-negative timestamps.               *)
(***************************************************************************)
\* Feature dicts (the keys compute_score reads) and their scores under the
\* default weights.
HLFeats ==
    { [rms |-> 8000, band_high |-> 70, flux |-> 40],   \* 770: high_feat of the tests
      [rms |-> 100,  band_high |-> 10, flux |-> 5],    \*  73: low_feat of the tests
      [rms |-> 5000, band_high |-> 60, flux |-> 40],   \* 650: exactly the threshold
      [rms |-> 5000, band_high |-> 50, flux |-> 37],   \* 596: inside the upper band
      [rms |-> 3000, band_high |-> 40, flux |-> 20],   \* 370: between the thresholds
      [rms |-> 1000, band_high |-> 30, flux |-> 20],   \* 280: inside the lower band
      [rms |-> 1000, band_high |-> 20, flux |-> 20] }  \* 250: exactly the drop threshold

\* (HIGHLIGHT_THRESHOLD, DROP_THRESHOLD): the defaults, and a configuration
\* whose drop threshold lies above the highlight threshold.
ThresholdChoices == { <<HIGHLIGHT_THRESHOLD, DROP_THRESHOLD>>, <<300, 500>> }

HysteresisChoices == {0, HIGHLIGHT_HYSTERESIS}

CooldownChoices == {0, HIGHLIGHT_COOLDOWN_SECONDS}

HLSettingsChoices ==
    { [DefaultHighlightSettings EXCEPT
          !.HIGHLIGHT_THRESHOLD = th[1],
          !.DROP_THRESHOLD = th[2],
          !.HIGHLIGHT_HYSTERESIS = hy,
          !.HIGHLIGHT_COOLDOWN_SECONDS = cd] :
        th \in ThresholdChoices, hy \in HysteresisChoices, cd \in CooldownChoices }

HLCreated == \E settings \in HLSettingsChoices : HLFresh(settings)

\* Outside MUSIC the detector returns before it reads feat: there the
\* high_feat and the low_feat of the tests stand for all of them.
HLFeatsOffMusic ==
    { [rms |-> 8000, band_high |-> 70, flux |-> 40],
      [rms |-> 100,  band_high |-> 10, flux |-> 5] }

\* One call detector.update(feat, mode, now=now).
HLUpdate ==
    \E mode \in ModeSet, now \in Times :
      \E feat \in (IF mode = "MUSIC" THEN HLFeats ELSE HLFeatsOffMusic) :
        /\ now >= clock
        /\ HL_update(feat, mode, now)
        /\ clock' = now
        /\ hlCall' = Some([feat |-> feat, mode |-> mode])
        /\ hlRet' = Some(hl_state')
        /\ hlPrev' = hl_state
        /\ hlFirstMusic' = IF mode = "MUSIC" /\ hlFirstMusic = None
                           THEN Some(now) ELSE hlFirstMusic
        /\ hlLastTrans' = IF mode = "MUSIC" /\ hl_state' # hl_state
                          THEN Some(now) ELSE hlLastTrans
        /\ hlLeft' = IF mode # "MUSIC" THEN TRUE
                     ELSE IF hl_state' # hl_state THEN FALSE ELSE hlLeft
        /\ hlConst' = IF mode # "MUSIC" THEN Some(-1)
                      ELSE IF hlConst \in { None, Some(ComputeScore(feat, hl_settings)) }
                      THEN Some(ComputeScore(feat, hl_settings))
                      ELSE Some(-1)
        /\ hlChanges' = IF hlConst' = Some(-1) THEN 0
                        ELSE IF hl_state' # hl_state
                        THEN Min(2, hlChanges + 1) ELSE hlChanges
        /\ UNCHANGED <<hl_settings, modeVars, fsVars, loopVars, fnVars>>

HLNext == HLUpdate

InitHL ==
    /\ clock = 0
    /\ HLCreated
    /\ ModeFresh(DefaultModeSettings)
    /\ FSFresh(DefaultFailsafeConfig)
    /\ NoLoop
    /\ NoCall

SpecHL == InitHL /\ [][HLNext]_vars

\* The mode and the score of the latest update call.
HLCallMode == Val(hlCall).mode

HLCallScore == ComputeScore(Val(hlCall).feat, hl_settings)

(***************************************************************************)
(* C3.  An update called with a mode other than MUSIC sets the state to    *)
(* IDLE and returns IDLE, whatever the score, the previous state and the   *)
(* cooldown timer.                                                         *)
(***************************************************************************)
C3_NonMusicForcesIdle ==
    (hlCall # None /\ HLCallMode # "MUSIC")
        => (hl_state = "IDLE" /\ hlRet = Some("IDLE"))

\* A non-MUSIC update with a qualifying score hit a detector that was in
\* HIGHLIGHT and still inside its cooldown.
C3_Witness ==
    /\ hlCall # None
    /\ HLCallMode = "SPEECH"
    /\ HLCallScore >= hl_settings.HIGHLIGHT_THRESHOLD
    /\ hlPrev = "HIGHLIGHT"
    /\ last_transition_time # None
    /\ clock - Val(last_transition_time) < hl_settings.HIGHLIGHT_COOLDOWN_SECONDS
    /\ hl_state = "IDLE"

(***************************************************************************)
(* C4.  A MUSIC-mode update at time now leaves the state unchanged when    *)
(* now - last_transition < HIGHLIGHT_COOLDOWN_SECONDS, last_transition     *)
(* being the time of the latest table transition (or of the first MUSIC    *)
(* update when there has been none); non-MUSIC updates in between do not   *)
(* restart it, and two consecutive table transitions are at least the      *)
(* cooldown apart.                                                         *)
(***************************************************************************)
C4_CooldownBlocksTransitions ==
    [][ (hlCall' # None /\ Val(hlCall').mode = "MUSIC") =>
          LET cooldown == hl_settings.HIGHLIGHT_COOLDOWN_SECONDS
              ref == IF hlLastTrans # None THEN Val(hlLastTrans)
                     ELSE IF hlFirstMusic # None THEN Val(hlFirstMusic)
                     ELSE clock'
          IN  /\ (clock' - ref < cooldown) => (hl_state' = hl_state)
              /\ (hl_state' # hl_state /\ hlLastTrans # None)
                    => (clock' - Val(hlLastTrans) >= cooldown) ]_vars

\* The detector made a table transition, was sent out of MUSIC and came back
\* with a qualifying score before the cooldown had elapsed: it stays IDLE.
C4_Witness ==
    /\ hlCall # None
    /\ HLCallMode = "MUSIC"
    /\ HLCallScore >= hl_settings.HIGHLIGHT_THRESHOLD
    /\ hlLeft
    /\ hlLastTrans # None
    /\ clock - Val(hlLastTrans) < hl_settings.HIGHLIGHT_COOLDOWN_SECONDS
    /\ hlPrev = "IDLE"
    /\ hl_state = "IDLE"

(***************************************************************************)
(* C5.  With no cooldown and no hysteresis, a MUSIC-mode update of a       *)
(* detector in IDLE (the first one included) leaves it in HIGHLIGHT when   *)
(* score >= threshold, in DROP when score < drop_threshold (and            *)
(* score < threshold), and in IDLE otherwise.                              *)
(***************************************************************************)
C5_IdleTransitionsWithoutCooldown ==
    ( /\ hlCall # None
      /\ HLCallMode = "MUSIC"
      /\ hlPrev = "IDLE"
      /\ hl_settings.HIGHLIGHT_COOLDOWN_SECONDS = 0
      /\ hl_settings.HIGHLIGHT_HYSTERESIS = 0 )
        => hl_state =
             IF HLCallScore >= hl_settings.HIGHLIGHT_THRESHOLD THEN "HIGHLIGHT"
             ELSE IF HLCallScore < hl_settings.DROP_THRESHOLD THEN "DROP"
             ELSE "IDLE"

\* The first MUSIC update of a detector without cooldown and hysteresis,
\* the one that initialises the timer, moved it from IDLE to HIGHLIGHT.
C5_Witness ==
    /\ hl_settings.HIGHLIGHT_COOLDOWN_SECONDS = 0
    /\ hl_settings.HIGHLIGHT_HYSTERESIS = 0
    /\ hlCall # None
    /\ HLCallMode = "MUSIC"
    /\ hlPrev = "IDLE"
    /\ hl_state = "HIGHLIGHT"
    /\ hlFirstMusic = Some(clock)
    /\ hlLastTrans = Some(clock)

(***************************************************************************)
(* The FailsafeManager driven call by call (as tests/test_failsafe.py      *)
(* drives it), with non-decreasing, non-negative timestamps.               *)
(***************************************************************************)
\* Stage durations short enough for every stage to be passed within MaxTime;
\* a duration of 0 disables the stage, and so does a negative black_seconds
\* (the constructor's docstring).
FSHoldChoices == {0, 2}

FSAmbientChoices == {0, 2}

FSBlackChoices == {-1, 0, 2}

FSConfigChoices ==
    { [DefaultFailsafeConfig EXCEPT
          !.hold_seconds = h, !.ambient_seconds = a, !.black_seconds = b] :
        h \in FSHoldChoices, a \in FSAmbientChoices, b \in FSBlackChoices }

FSCreated == \E cfg \in FSConfigChoices : FSFresh(cfg)

\* One call fsm.on_frame_sent(now=now).
FSFrameSent ==
    \E now \in Times :
        /\ now >= clock
        /\ FS_on_frame_sent(now)
        /\ clock' = now
        /\ fsOp' = Some("sent")
        /\ fsOnset' = None
        /\ fsRefail' = FALSE
        /\ fsRecovered' = IF fsOnset # None THEN Some(fs_state) ELSE fsRecovered
        /\ fsRepeat' = FALSE
        /\ fsSeen' = <<>>
        /\ UNCHANGED <<fs_cfg, fsRet, modeVars, hlVars, loopVars, fnVars>>

\* One call fsm.on_frame_fail(now=now).
FSFrameFail ==
    \E now \in Times :
        /\ now >= clock
        /\ FS_on_frame_fail(now)
        /\ clock' = now
        /\ fsOp' = Some("fail")
        /\ fsOnset' = IF fsOnset = None THEN Some(now) ELSE fsOnset
        /\ fsRefail' = (fsOnset # None)
        /\ fsRecovered' = None
        /\ fsRepeat' = FALSE
        /\ fsSeen' = IF fsOnset = None THEN <<>> ELSE fsSeen
        /\ UNCHANGED <<fs_cfg, fsRet, modeVars, hlVars, loopVars, fnVars>>

\* One call fsm.get_intensity(now=now).
FSGetIntensity ==
    \E now \in Times :
        /\ now >= clock
        /\ FS_get_intensity(now)
        /\ clock' = now
        /\ fsOp' = Some("get")
        /\ fsRepeat' = (fsOp = Some("get") /\ now = clock)
        /\ fsSeen' = IF fsOnset = None THEN <<>>
                     ELSE IF fsSeen = <<>>
                     THEN << <<fs_state', Val(fsRet')>> >>
                     ELSE << fsSeen[Len(fsSeen)], <<fs_state', Val(fsRet')>> >>
        /\ UNCHANGED <<fs_cfg, fsOnset, fsRefail, fsRecovered, modeVars, hlVars,
                       loopVars, fnVars>>

FSNext == FSFrameSent \/ FSFrameFail \/ FSGetIntensity

InitFS ==
    /\ clock = 0
    /\ FSCreated
    /\ ModeFresh(DefaultModeSettings)
    /\ HLFresh(DefaultHighlightSettings)
    /\ NoLoop
    /\ NoCall

SpecFS == InitFS /\ [][FSNext]_vars

(***************************************************************************)
(* C6.  After the on_frame_fail(t0) that starts a failure, and with no     *)
(* on_frame_sent since, get_intensity(now) returns 1.0 with stage          *)
(* LAST_HOLD when now - t0 < hold_seconds, and ambient_intensity with      *)
(* stage DIM_AMBIENT when hold_seconds <= now - t0 < hold_seconds +        *)
(* ambient_seconds.                                                        *)
(***************************************************************************)
C6_HoldThenAmbient ==
    (fsOp = Some("get") /\ fsOnset # None) =>
        LET elapsed == clock - Val(fsOnset)
            hold    == fs_cfg.hold_seconds
            ambient == fs_cfg.ambient_seconds
        IN  /\ (elapsed < hold)
                => (fsRet = Some(1000) /\ fs_state = "LAST_HOLD")
            /\ (hold <= elapsed /\ elapsed < hold + ambient)
                => (fsRet = Some(fs_cfg.ambient_intensity)
                      /\ fs_state = "DIM_AMBIENT")

\* get_intensity was asked exactly hold_seconds after the failure began and
\* answered with the ambient stage.
C6_Witness ==
    /\ fsOp = Some("get")
    /\ fsOnset # None
    /\ fs_cfg.hold_seconds > 0
    /\ fs_cfg.ambient_seconds > 0
    /\ clock - Val(fsOnset) = fs_cfg.hold_seconds
    /\ fs_state = "DIM_AMBIENT"
    /\ fsRet = Some(fs_cfg.ambient_intensity)

(***************************************************************************)
(* C7.  on_frame_sent during a failure, in whatever stage, sets the stage  *)
(* to NORMAL at once, and every get_intensity after it returns 1.0 with    *)
(* stage NORMAL until the next on_frame_fail.                              *)
(***************************************************************************)
C7_InstantRecovery ==
    (fsRecovered # None) =>
        /\ fs_state = "NORMAL"
        /\ failure_time = None
        /\ (fsOp = Some("get")) => (fsRet = Some(1000))

\* A failure that had reached DIM_BLACK was ended by on_frame_sent, and a
\* later get_intensity answered 1.0.
C7_Witness ==
    /\ fsRecovered = Some("DIM_BLACK")
    /\ fsOp = Some("get")
    /\ recovery_time # None
    /\ clock > Val(recovery_time)
    /\ fsRet = Some(1000)
    /\ fs_state = "NORMAL"

(***************************************************************************)
(* C8.  While a failure is in progress a further on_frame_fail changes     *)
(* neither the failure onset nor the stage, and what get_intensity(now)    *)
(* returns depends only on now minus the time of the first failure since   *)
(* the latest success.                                                     *)
(***************************************************************************)
C8_RepeatedFailuresIgnored ==
    /\ [] ( (fsOnset # None) =>
              /\ failure_time = fsOnset
              /\ (fsOp = Some("get")) =>
                    << fs_state, Val(fsRet) >>
                       = FS_StageIntensity(clock - Val(fsOnset), fs_cfg) )
    /\ [][ (fsOp' = Some("fail") /\ fsOnset # None) =>
              (failure_time' = failure_time /\ fs_state' = fs_state) ]_vars

\* After a repeated on_frame_fail during a failure with a non-zero hold,
\* get_intensity reported the ambient stage counted from the first failure.
C8_Witness ==
    /\ fsRefail
    /\ fsOp = Some("get")
    /\ fsOnset # None
    /\ fs_state = "DIM_AMBIENT"
    /\ fs_cfg.hold_seconds > 0

(***************************************************************************)
(* The loops: run_realtime on a signal of n_samples samples, and the       *)
(* daemon.  time.time() never returns 0: the clock starts at 1.            *)
(***************************************************************************)
MaxSamples == 4

MaxSamplesPerFrame == 2

MaxSecondsChoices == { None, Some(0), Some(3) }

\* run_realtime(x, sr, target_fps, max_seconds) up to the while loop.
RealtimeStart ==
    /\ loop = "realtime"
    /\ signal_kind \in FrameKinds
    /\ n_samples \in 0 .. MaxSamples
    /\ samples_per_frame \in 1 .. MaxSamplesPerFrame
    /\ max_seconds \in MaxSecondsChoices
    /\ running = FALSE
    /\ file_mtime = None
    /\ file_ok = TRUE
    /\ file_cfg = [MODE_HOLD_SECONDS |-> MODE_HOLD_SECONDS]

\* MODE_HOLD_SECONDS values an operator may have written to the file.
FileHoldChoices == {2, 5}

\* The dicts json.load may return from the configuration file.
FileConfigs == { [MODE_HOLD_SECONDS |-> h] : h \in FileHoldChoices }

\* DaemonLoop.__init__ and run() up to the while loop.
DaemonStart ==
    /\ loop = "daemon"
    /\ signal_kind = [rms |-> 0, mag |-> <<0, 0, 0, 0>>]
    /\ n_samples = 0
    /\ samples_per_frame = SAMPLE_RATE \div TARGET_FPS
    /\ max_seconds = None
    /\ running = TRUE
    /\ file_mtime \in { None, Some(1) }
    /\ file_ok \in BOOLEAN
    /\ file_cfg \in FileConfigs

InitLoop ==
    /\ clock = 1
    /\ ModeFresh(DefaultModeSettings)
    /\ HLFresh(DefaultHighlightSettings)
    /\ FSFresh(DefaultFailsafeConfig)
    /\ RealtimeStart \/ DaemonStart
    /\ pc = "loop"
    /\ result = None
    /\ error = None
    /\ start_time = 1
    /\ read_pos = 0
    /\ prev_mag = None
    /\ frames = 0
    /\ last_cfg_mtime = None
    /\ ticks = 0
    /\ tick_feat = None
    /\ stages = << >>
    /\ sent_frames = << >>
    /\ NoCall

LoopNext ==
    \/ RealtimeTick
    \/ RealtimeTimeout
    \/ DaemonTick
    \/ DaemonStop
    \/ SignalHandler

SpecLoop == InitLoop /\ [][LoopNext]_vars

(***************************************************************************)
(* C9.  On every tick of the control loop the outcome of the transport     *)
(* attempt is reported to the failsafe manager (on_frame_sent or           *)
(* on_frame_fail), whose get_intensity gates the intensity of the next     *)
(* tick: once a tick has run, the manager has been called.                 *)
(***************************************************************************)
C9_TickReportsToFailsafe ==
    (ticks > 0) => (fsOp # None)

(***************************************************************************)
(* C10.  On every tick the HighlightDetector is updated with the tick's    *)
(* feature vector and the mode ModeManager.update just returned, so the    *)
(* highlight state is IDLE on every tick whose mode is not MUSIC, and the  *)
(* tick completes without error.                                           *)
(***************************************************************************)
C10_TickUpdatesHighlight ==
    (ticks > 0) =>
        /\ error = None
        /\ hlCall # None
        /\ HLCallMode = current_mode
        /\ (current_mode # "MUSIC") => (hl_state = "IDLE")

(***************************************************************************)
(* C11.  Within each tick the stages run in the order feature extraction,  *)
(* mode classification, highlight classification, encode/send, and the     *)
(* frame_index handed to send_frame is 0 on the first tick and one more on *)
(* every following tick: after k ticks the loop has sent the indices       *)
(* 0 .. k-1 in this order.                                                 *)
(***************************************************************************)
C11_StagesInOrderFrameIndexCounts ==
    (ticks > 0) =>
        /\ stages = << "feature", "mode", "highlight", "send" >>
        /\ Len(sent_frames) = ticks
        /\ \A i \in 1 .. Len(sent_frames) : sent_frames[i].frame_index = i - 1

(***************************************************************************)
(* C12.  run_realtime ends by returning its frame count: without           *)
(* max_seconds the count is max(1, ceil(n_samples / samples_per_frame));   *)
(* with max_seconds > 0 and a non-empty signal it is at least 1.           *)
(***************************************************************************)
C12_RealtimeReturnsFrameCount ==
    (loop = "realtime" /\ pc # "loop") =>
        /\ pc = "returned"
        /\ result # None
        /\ (max_seconds = None) =>
              (Val(result) = Max(1, CeilDiv(n_samples, samples_per_frame)))
        /\ (max_seconds # None /\ Val(max_seconds) > 0 /\ n_samples > 0) =>
              (Val(result) >= 1)

(***************************************************************************)
(* C13.  A tick never ends the loop with an error, whatever the transport  *)
(* did: the tick hands its frame to send_frame, the outcome is reported to *)
(* the failsafe manager (on_frame_sent or on_frame_fail) and the loop goes *)
(* on or ends normally.                                                    *)
(***************************************************************************)
C13_TransportFailureNotFatal ==
    [][ (ticks' = ticks + 1) =>
            /\ error' = None
            /\ pc' # "raised"
            /\ ~ (loop = "daemon" /\ result' = Some(1))
            /\ Len(sent_frames') = Len(sent_frames) + 1
            /\ fsOp' \in { Some("sent"), Some("fail") } ]_vars

(***************************************************************************)
(* The output encoders (outputs/udp_pixel_sender.py,                       *)
(* outputs/artnet_sender.py) and the helpers of the loops, as functions of *)
(* their arguments.  A bytes object is a sequence of integers 0 .. 255.    *)
(* What a sender does is the record                                        *)
(*   raised    the exception it raised ("" if none),                       *)
(*   displayed the frames it handed to the simulator,                      *)
(*   packets   the packets it built, in the order it logged or sent them,  *)
(*   on_wire   whether the packets went to the socket (dry_run false),     *)
(*   warned    whether it logged a failed simulator call.                  *)
(***************************************************************************)
\* struct.calcsize("!HHIHH")
HEADER_SIZE == 12

DEFAULT_MTU == 1400

\* UDPPixelSender.generate_dummy_pixel_data(pixel_count, channel_index)
GenerateDummyPixelData(pixel_count, channel_index) ==
    [ k \in 1 .. 3 * pixel_count |->
        LET i == (k - 1) \div 3
            c == (k - 1) % 3
            t == (i * 255) \div Max(1, pixel_count - 1)
            rgb == IF channel_index = 0 THEN << t, 0, 0 >>
                   ELSE IF channel_index = 1 THEN << 0, t, 0 >>
                   ELSE IF channel_index = 2 THEN << 0, 0, t >>
                   ELSE << t, 255 - t, (t * 2) % 256 >>
        IN  rgb[c + 1] % 256 ]

\* UDPPixelSender._chunk_payload with a floor in place of math.ceil.
ChunkPayload_Floor(payload, mtu) ==
    LET max_payload_per_packet == Max(1, mtu - HEADER_SIZE)
    IN  [ max_payload_per_packet |-> max_payload_per_packet,
          total_chunks |-> Len(payload) \div max_payload_per_packet,
          len |-> Len(payload) ]

\* UDPPixelSender._chunk_payload
ChunkPayload(payload, mtu) ==
    LET max_payload_per_packet == Max(1, mtu - HEADER_SIZE)
    IN  [ max_payload_per_packet |-> max_payload_per_packet,
          total_chunks |-> CeilDiv(Len(payload), max_payload_per_packet),
          len |-> Len(payload) ]

\* struct.pack of an unsigned short (">H", "<H") and of an unsigned int
\* (">I"), as bytes.
BE16(x) == << (x \div 256) % 256, x % 256 >>

LE16(x) == << x % 256, (x \div 256) % 256 >>

BE32(x) ==
    << (x \div 16777216) % 256, (x \div 65536) % 256, (x \div 256) % 256,
       x % 256 >>

\* A plausible slip: the header packed in little-endian order ("<HHIHH").
PackHeader_LittleEndian(output_id, pixel_count, frame_index, chunk_index, total_chunks) ==
    LE16(output_id) \o LE16(pixel_count)
      \o << frame_index % 256, (frame_index \div 256) % 256,
            (frame_index \div 65536) % 256, (frame_index \div 16777216) % 256 >>
      \o LE16(chunk_index) \o LE16(total_chunks)

\* struct.pack(_HEADER_FMT, ...) of the five (masked) header fields.
PackHeader(output_id, pixel_count, frame_index, chunk_index, total_chunks) ==
    BE16(output_id) \o BE16(pixel_count) \o BE32(frame_index)
      \o BE16(chunk_index) \o BE16(total_chunks)

\* The for loop of send_frame from chunk_index on: the packets it builds.
\* (frame_index & 0xFFFFFFFF leaves every index below 2^32 as it is; the
\* indices of the model are below 2^31.)
RECURSIVE SendChunks(_, _, _, _, _)
SendChunks(pixel_payload, hdr, cp, chunk_index, offset) ==
    IF chunk_index >= cp.total_chunks
    THEN << >>
    ELSE LET chunk == Slice(pixel_payload, offset,
                            offset + cp.max_payload_per_packet)
             packet == [ output_id    |-> hdr.output_id % 65536,
                         pixel_count  |-> hdr.pixel_count % 65536,
                         frame_index  |-> hdr.frame_index,
                         chunk_index  |-> chunk_index % 65536,
                         total_chunks |-> cp.total_chunks % 65536,
                         chunk        |-> chunk,
                         \* packet = header + chunk
                         bytes        |-> PackHeader(hdr.output_id % 65536,
                                             hdr.pixel_count % 65536,
                                             hdr.frame_index,
                                             chunk_index % 65536,
                                             cp.total_chunks % 65536) \o chunk ]
         IN  << packet >> \o SendChunks(pixel_payload, hdr, cp,
                                        chunk_index + 1, offset + Len(chunk))

\* A plausible slip in send_frame: the return sits after the try block, so a
\* frame whose simulator call failed is dropped after the warning.
SendFrame_ReturnsAfterWarning(pixel_payload, output_id, frame_index, dry_run, mtu, sim_mode, sim_ok) ==
    LET pixel_count == Len(pixel_payload) \div 3
    IN  IF sim_mode
        THEN [ raised |-> "",
               displayed |-> IF sim_ok
                             THEN << [ output_id |-> output_id,
                                       payload |-> pixel_payload,
                                       frame_index |-> frame_index ] >>
                             ELSE << >>,
               packets |-> << >>,
               on_wire |-> FALSE, warned |-> ~ sim_ok ]
        ELSE [ raised |-> "",
               displayed |-> << >>,
               packets |-> SendChunks(pixel_payload,
                                      [ output_id |-> output_id,
                                        pixel_count |-> pixel_count,
                                        frame_index |-> frame_index ],
                                      ChunkPayload(pixel_payload, mtu), 0, 0),
               on_wire |-> ~ dry_run, warned |-> FALSE ]

\* UDPPixelSender.send_frame(host, port, pixel_payload, output_id,
\* frame_index, dry_run) of a sender of the given mtu; sim_mode is
\* settings.SIM_MODE and sim_ok says that the simulator's import and
\* display_frame do not raise.
SendFrame(pixel_payload, output_id, frame_index, dry_run, mtu, sim_mode, sim_ok) ==
    LET pixel_count == Len(pixel_payload) \div 3
    IN  IF sim_mode /\ sim_ok
        THEN [ raised |-> "",
               displayed |-> << [ output_id |-> output_id,
                                  payload |-> pixel_payload,
                                  frame_index |-> frame_index ] >>,
               packets |-> << >>,
               on_wire |-> FALSE, warned |-> FALSE ]
        ELSE [ raised |-> "",
               displayed |-> << >>,
               packets |-> SendChunks(pixel_payload,
                                      [ output_id |-> output_id,
                                        pixel_count |-> pixel_count,
                                        frame_index |-> frame_index ],
                                      ChunkPayload(pixel_payload, mtu), 0, 0),
               on_wire |-> ~ dry_run, warned |-> sim_mode ]

\* The universe size of send_dmx.
DMX_CHANNELS == 512

\* ArtNetSender.generate_dummy_dmx(), cut or continued to n channels.
GenerateDummyDmx(n) == [ i \in 1 .. n |-> ((i - 1) * 3) % 256 ]

\* b"Art-Net\x00"
ARTNET_ID == << 65, 114, 116, 45, 78, 101, 116, 0 >>

\* A plausible slip in _build_packet: the length packed little-endian like
\* the opcode and the universe.
BuildPacket_LengthLE(universe, data) ==
    [ id        |-> "Art-Net\\0",
      opcode    |-> 20480,
      protver   |-> 14,
      sequence  |-> 0,
      physical  |-> 0,
      universe  |-> universe % 65536,
      length    |-> Len(data) % 65536,
      data      |-> data,
      bytes     |-> ARTNET_ID \o LE16(20480) \o BE16(14) \o << 0, 0 >>
                      \o LE16(universe % 65536) \o LE16(Len(data) % 65536)
                      \o data ]

\* ArtNetSender._build_packet(universe, data): the fields of the packet and
\* the bytes it returns.
BuildPacket(universe, data) ==
    [ id        |-> "Art-Net\\0",
      opcode    |-> 20480,
      protver   |-> 14,
      sequence  |-> 0,
      physical  |-> 0,
      universe  |-> universe % 65536,
      length    |-> Len(data) % 65536,
      data      |-> data,
      bytes     |-> ARTNET_ID \o LE16(20480) \o BE16(14) \o << 0, 0 >>
                      \o LE16(universe % 65536) \o BE16(Len(data) % 65536)
                      \o data ]

\* send_dmx that cuts data longer than the universe instead of raising.
SendDmx_Truncates(dmx_data, universe, dry_run, sim_mode, sim_ok) ==
    LET data   == IF dmx_data = None THEN [ i \in 1 .. DMX_CHANNELS |-> 0 ]
                  ELSE Slice(Val(dmx_data), 0, DMX_CHANNELS)
        padded == data \o [ i \in 1 .. DMX_CHANNELS - Len(data) |-> 0 ]
    IN  IF sim_mode /\ sim_ok
        THEN [ raised |-> "",
               displayed |-> << [ universe |-> universe, data |-> padded ] >>,
               packets |-> << >>, on_wire |-> FALSE, warned |-> FALSE ]
        ELSE [ raised |-> "", displayed |-> << >>,
               packets |-> << BuildPacket(universe, padded) >>,
               on_wire |-> ~ dry_run, warned |-> sim_mode ]

\* ArtNetSender.send_dmx(host, port, universe, dmx_data, dry_run); dmx_data
\* is Optional; sim_mode and sim_ok as for send_frame.
SendDmx(dmx_data, universe, dry_run, sim_mode, sim_ok) ==
    LET data   == IF dmx_data = None THEN [ i \in 1 .. DMX_CHANNELS |-> 0 ]
                  ELSE Val(dmx_data)
        padded == data \o [ i \in 1 .. DMX_CHANNELS - Len(data) |-> 0 ]
    IN  IF Len(data) > DMX_CHANNELS
        THEN [ raised |-> "ValueError", displayed |-> << >>,
               packets |-> << >>, on_wire |-> FALSE, warned |-> FALSE ]
        ELSE IF sim_mode /\ sim_ok
        THEN [ raised |-> "",
               displayed |-> << [ universe |-> universe, data |-> padded ] >>,
               packets |-> << >>, on_wire |-> FALSE, warned |-> FALSE ]
        ELSE [ raised |-> "", displayed |-> << >>,
               packets |-> << BuildPacket(universe, padded) >>,
               on_wire |-> ~ dry_run, warned |-> sim_mode ]

\* int(b * intensity) for a byte b and a clamped intensity in per mille.
\* The product is a double: for 0.7 it falls just below the integer at
\* b = 90, 170 and 180, and int() then gives one less than the exact floor.
FloatShort == { << 700, 90 >>, << 700, 170 >>, << 700, 180 >> }

ScaleByte(b, intensity) ==
    LET exact == (b * intensity) \div 1000
    IN  (IF << intensity, b >> \in FloatShort THEN exact - 1 ELSE exact) % 256

\* _adjust_payload_intensity without the clamp of its first line.
AdjustPayloadIntensity_NoClamp(pixel_data, intensity) ==
    IF intensity = 1000
    THEN [ raised |-> "", value |-> pixel_data ]
    ELSE IF Len(pixel_data) % 3 # 0
    THEN [ raised |-> "IndexError", value |-> << >> ]
    ELSE [ raised |-> "",
           value |-> [ k \in 1 .. Len(pixel_data) |->
                         ((pixel_data[k] * intensity) \div 1000) % 256 ] ]

\* _adjust_payload_intensity(pixel_data, intensity) of main.py and daemon.py
\* (the same text); intensity in per mille.  The loop takes the bytes three
\* at a time and so raises IndexError on a payload that is not whole triples.
AdjustPayloadIntensity(pixel_data, intensity) ==
    LET clamped == Max(0, Min(1000, intensity))
    IN  IF clamped = 1000
        THEN [ raised |-> "", value |-> pixel_data ]
        ELSE IF Len(pixel_data) % 3 # 0
        THEN [ raised |-> "IndexError", value |-> << >> ]
        ELSE [ raised |-> "",
               value |-> [ k \in 1 .. Len(pixel_data) |->
                             ScaleByte(pixel_data[k], clamped) ] ]

\* The (channel, intensity) lookup of the three loops, each from its own
\* text; intensity in per mille.
\* run_analysis (main.py):
LookupAnalysis(mode, hlight_state) ==
    IF mode = "IDLE" THEN [ ch |-> 3, intensity |-> 300 ]
    ELSE IF mode = "SPEECH" THEN [ ch |-> 1, intensity |-> 700 ]
    ELSE [ ch |-> 0,
           intensity |-> IF hlight_state = "HIGHLIGHT" THEN 1000
                         ELSE IF hlight_state = "DROP" THEN 300
                         ELSE 700 ]

\* run_realtime with DROP as bright as HIGHLIGHT.
LookupRealtime_DropBright(mode, hstate) ==
    IF mode = "IDLE" THEN [ ch |-> 3, intensity |-> 300 ]
    ELSE IF mode = "SPEECH" THEN [ ch |-> 1, intensity |-> 700 ]
    ELSE [ ch |-> 0,
           intensity |-> IF hstate = "HIGHLIGHT" THEN 1000
                         ELSE IF hstate = "DROP" THEN 1000
                         ELSE 700 ]

\* run_realtime (main.py):
LookupRealtime(mode, hstate) ==
    IF mode = "IDLE" THEN [ ch |-> 3, intensity |-> 300 ]
    ELSE IF mode = "SPEECH" THEN [ ch |-> 1, intensity |-> 700 ]
    ELSE [ ch |-> 0,
           intensity |-> IF hstate = "HIGHLIGHT" THEN 1000
                         ELSE IF hstate = "DROP" THEN 300
                         ELSE 700 ]

\* DaemonLoop._send_pixel_frame (daemon.py):
LookupDaemon(mode, hstate) ==
    IF mode = "IDLE" THEN [ ch |-> 3, intensity |-> 300 ]
    ELSE IF mode = "SPEECH" THEN [ ch |-> 1, intensity |-> 700 ]
    ELSE [ ch |-> 0,
           intensity |-> IF hstate = "HIGHLIGHT" THEN 1000
                         ELSE IF hstate = "DROP" THEN 300
                         ELSE 700 ]

(***************************************************************************)
(* The installation-configuration validator (src/web/config_manager.py)    *)
(***************************************************************************)
\* The last DMX address of a universe.
DMX_LAST_ADDRESS == 512

\* The largest pixel_count _validate_pixels accepts.
PIXEL_COUNT_MAX == 1024

\* int(mode) for the channel_mode strings of the model; a string that is not
\* a number makes int() raise, and the fixture then counts as one channel.
ModeChannels(mode) ==
    CASE mode = "0"   -> 0
      [] mode = "1"   -> 1
      [] mode = "3"   -> 3
      [] mode = "300" -> 300
      [] OTHER        -> 1

\* A plausible slip: only the start address of a fixture is recorded.
FixtureAddresses_StartOnly(start, channels) ==
    IF start < Min(DMX_LAST_ADDRESS + 1, start + channels)
    THEN << start >> ELSE << >>

\* list(range(start, min(513, start + channels)))
FixtureAddresses(start, channels) ==
    LET hi == Min(DMX_LAST_ADDRESS + 1, start + channels)
    IN  [ k \in 1 .. Max(0, hi - start) |-> start + k - 1 ]

\* The inner loop of _validate_fixtures over one fixture's addresses (a
\* range, so no address occurs twice in it): every address already used is
\* reported, in order, and every other is recorded as used.
ScanAddresses(addresses, used, errors) ==
    LET dups == SelectSeq(addresses, LAMBDA a : a \in used)
    IN  [ used   |-> used \cup { addresses[k] : k \in DOMAIN addresses },
          errors |-> errors \o [ k \in DOMAIN dups |->
                                   [kind |-> "duplicate", value |-> dups[k]] ] ]

\* The loop of _validate_fixtures from one fixture on, and the check of the
\* channel total after the loop.
RECURSIVE FixturesLoop(_, _, _, _)
FixturesLoop(fixtures, used, total_channels, errors) ==
    IF Len(fixtures) = 0
    THEN IF total_channels > DMX_LAST_ADDRESS
         THEN Append(errors, [kind |-> "total", value |-> total_channels])
         ELSE errors
    ELSE LET fx       == Head(fixtures)
             start    == fx.start_address
             channels == ModeChannels(fx.channel_mode)
             e1       == IF start < 1 \/ start > DMX_LAST_ADDRESS
                         THEN Append(errors, [kind |-> "range", value |-> start])
                         ELSE errors
             sc       == ScanAddresses(FixtureAddresses(start, channels),
                                       used, e1)
         IN  FixturesLoop(Tail(fixtures), sc.used, total_channels + channels,
                          sc.errors)

\* _validate_fixtures(fixtures): the list of errors.
ValidateFixtures(fixtures) == FixturesLoop(fixtures, {}, 0, << >>)

\* _validate_pixels(pixels): the list of errors.
RECURSIVE ValidatePixels(_)
ValidatePixels(pixels) ==
    IF Len(pixels) = 0 THEN << >>
    ELSE LET cnt == Head(pixels).pixel_count
         IN  (IF cnt < 0 \/ cnt > PIXEL_COUNT_MAX
              THEN << [kind |-> "pixel_count", value |-> cnt] >>
              ELSE << >>) \o ValidatePixels(Tail(pixels))

\* validate_config(cfg) -> (ok, errors).  A value of cfg is given by whether
\* it has the expected type (dict for stage, list for the two others) and,
\* for the two lists, by its items; a value without items is falsy and is
\* replaced by [].
ValidateConfig(cfg) ==
    LET e0 == IF cfg.stage_is_dict THEN << >>
              ELSE << [kind |-> "stage", value |-> 0] >>
        fixtures == cfg.dmx_fixtures
        e1 == IF Len(fixtures.items) > 0 /\ ~ fixtures.is_list
              THEN << [kind |-> "dmx_fixtures", value |-> 0] >>
              ELSE ValidateFixtures(fixtures.items)
        pixels == cfg.pixel_channels
        e2 == IF Len(pixels.items) > 0 /\ ~ pixels.is_list
              THEN << [kind |-> "pixel_channels", value |-> 0] >>
              ELSE ValidatePixels(pixels.items)
        errors == e0 \o e1 \o e2
    IN  [ ok |-> (Len(errors) = 0), errors |-> errors ]

(***************************************************************************)
(* The encoders and helpers applied once, on arguments drawn from small    *)
(* sets.                                                                   *)
(***************************************************************************)
MaxPixels == 3

\* Payloads: the dummy patterns of the four channels and their prefixes
\* (whole RGB triples or not).
PixelPayloads ==
    { Slice(GenerateDummyPixelData(MaxPixels, ch), 0, k) :
        ch \in 0 .. 3, k \in 0 .. 3 * MaxPixels }

MtuChoices == { 0, 13, 14, 16, DEFAULT_MTU }

OutputIdChoices == { 1, 4, 65537 }

FrameIndexChoices == { 0, 1, 70000 }

\* sender = UDPPixelSender(mtu); sender.send_frame(...)
CallSendFrame ==
    /\ fn = "none"
    /\ \E payload \in PixelPayloads, mtu \in MtuChoices,
          output_id \in OutputIdChoices, frame_index \in FrameIndexChoices,
          dry_run \in BOOLEAN, sim_mode \in BOOLEAN, sim_ok \in BOOLEAN :
          /\ fn' = "send_frame"
          /\ fnIn' = [ pixel_payload |-> payload, mtu |-> mtu,
                       output_id |-> output_id, frame_index |-> frame_index,
                       dry_run |-> dry_run, sim_mode |-> sim_mode,
                       sim_ok |-> sim_ok ]
          /\ fnOut' = SendFrame(payload, output_id, frame_index, dry_run,
                                mtu, sim_mode, sim_ok)
    /\ UNCHANGED <<clock, modeVars, hlVars, fsVars, loopVars>>

\* DMX data of the lengths around the universe size, and None.
DmxLengths == { 0, 1, 2, 511, 512, 513, 514 }

DmxInputs ==
    { None } \cup { Some(GenerateDummyDmx(n)) : n \in DmxLengths }
             \cup { Some([ i \in 1 .. n |-> 255 ]) : n \in DmxLengths }

UniverseChoices == { 0, 1, 65536 }

\* sender = ArtNetSender(); sender.send_dmx(...)
CallSendDmx ==
    /\ fn = "none"
    /\ \E dmx_data \in DmxInputs, universe \in UniverseChoices,
          dry_run \in BOOLEAN, sim_mode \in BOOLEAN, sim_ok \in BOOLEAN :
          /\ fn' = "send_dmx"
          /\ fnIn' = [ dmx_data |-> dmx_data, universe |-> universe,
                       dry_run |-> dry_run, sim_mode |-> sim_mode,
                       sim_ok |-> sim_ok ]
          /\ fnOut' = SendDmx(dmx_data, universe, dry_run, sim_mode, sim_ok)
    /\ UNCHANGED <<clock, modeVars, hlVars, fsVars, loopVars>>

\* Intensities in per mille: below 0, the values of the lookup, above 1.
IntensityChoices == { -500, 0, 300, 700, 1000, 1500 }

\* payload = _adjust_payload_intensity(payload, intensity)
CallAdjustPayloadIntensity ==
    /\ fn = "none"
    /\ \E payload \in PixelPayloads, intensity \in IntensityChoices :
          /\ fn' = "_adjust_payload_intensity"
          /\ fnIn' = [ pixel_data |-> payload, intensity |-> intensity ]
          /\ fnOut' = AdjustPayloadIntensity(payload, intensity)
    /\ UNCHANGED <<clock, modeVars, hlVars, fsVars, loopVars>>

\* The states of the HighlightDetector.
HighlightStates == { "IDLE", "HIGHLIGHT", "DROP" }

\* The lookup of the three loops on one (mode, highlight state) pair.
CallLookup ==
    /\ fn = "none"
    /\ \E mode \in ModeSet, hstate \in HighlightStates :
          /\ fn' = "lookup"
          /\ fnIn' = [ mode |-> mode, hstate |-> hstate ]
          /\ fnOut' = [ analysis |-> LookupAnalysis(mode, hstate),
                        realtime |-> LookupRealtime(mode, hstate),
                        daemon   |-> LookupDaemon(mode, hstate) ]
    /\ UNCHANGED <<clock, modeVars, hlVars, fsVars, loopVars>>

EncNext ==
    \/ CallSendFrame
    \/ CallSendDmx
    \/ CallAdjustPayloadIntensity
    \/ CallLookup

InitEnc ==
    /\ clock = 0
    /\ ModeFresh(DefaultModeSettings)
    /\ HLFresh(DefaultHighlightSettings)
    /\ FSFresh(DefaultFailsafeConfig)
    /\ NoLoop
    /\ NoCall

SpecEnc == InitEnc /\ [][EncNext]_vars

\* The payload slices of a sequence of packets, concatenated in order.
RECURSIVE ConcatChunks(_)
ConcatChunks(pk) ==
    IF Len(pk) = 0 THEN << >> ELSE Head(pk).chunk \o ConcatChunks(Tail(pk))

\* send_frame chunked the payload (not handed to the simulator) into
\* slices of size per: the packet count, the slice lengths and the round trip.
ChunkedBy(per) ==
    LET payload == fnIn.pixel_payload
        pk      == fnOut.packets
    IN  /\ Len(pk) = CeilDiv(Len(payload), per)
        /\ \A i \in 1 .. Len(pk) - 1 : Len(pk[i].chunk) = per
        /\ ConcatChunks(pk) = payload

(***************************************************************************)
(* C15 (as amended: the header is 12 bytes).  For a payload of length L    *)
(* and mtu M, simulator routing off, send_frame emits exactly              *)
(* ceil(L / max(1, M - 12)) packets, every payload slice except possibly   *)
(* the last has length max(1, M - 12), and the slices concatenated in      *)
(* emission order equal the payload byte for byte.                         *)
(***************************************************************************)
C15_ChunkingRoundTrip ==
    (fn = "send_frame" /\ ~ fnIn.sim_mode) =>
        ChunkedBy(Max(1, fnIn.mtu - 12))

\* C15 as stated, with a 10-byte header: the slices have length
\* max(1, M - 10) and there are ceil(L / max(1, M - 10)) of them.
C15_ChunkingRoundTripHeader10 ==
    (fn = "send_frame" /\ ~ fnIn.sim_mode) =>
        ChunkedBy(Max(1, fnIn.mtu - 10))

\* A payload was sent in several packets of more than one byte, the last
\* one shorter than the others.
C15_Witness ==
    /\ fn = "send_frame"
    /\ ~ fnIn.sim_mode
    /\ fnIn.mtu - HEADER_SIZE > 1
    /\ Len(fnOut.packets) >= 2
    /\ Len(fnOut.packets[Len(fnOut.packets)].chunk) < fnIn.mtu - HEADER_SIZE

\* The channel data send_dmx handed on, to the simulator or in its packet.
DmxHandedOn ==
    [ i \in 1 .. Len(fnOut.displayed) |-> fnOut.displayed[i].data ]
        \o [ i \in 1 .. Len(fnOut.packets) |-> fnOut.packets[i].data ]

(***************************************************************************)
(* C16.  send_dmx: channel data of length n <= 512 goes out as exactly     *)
(* 512 bytes, the first n of them the input and the others 0; data of      *)
(* length n > 512 raises ValueError with nothing built, handed to the      *)
(* simulator or sent (it is never truncated).                              *)
(***************************************************************************)
C16_DmxPaddedOrRejected ==
    (fn = "send_dmx" /\ fnIn.dmx_data # None) =>
        LET data == Val(fnIn.dmx_data)
            n    == Len(data)
        IN  IF n <= 512
            THEN /\ fnOut.raised = ""
                 /\ Len(DmxHandedOn) = 1
                 /\ Len(DmxHandedOn[1]) = 512
                 /\ \A i \in 1 .. 512 :
                       DmxHandedOn[1][i] = (IF i <= n THEN data[i] ELSE 0)
            ELSE /\ fnOut.raised = "ValueError"
                 /\ DmxHandedOn = << >>

\* Two non-zero channels short of a universe went out in a packet.
C16_Witness ==
    /\ fn = "send_dmx"
    /\ fnIn.dmx_data # None
    /\ Len(Val(fnIn.dmx_data)) = 511
    /\ Val(fnIn.dmx_data)[511] # 0
    /\ Len(fnOut.packets) = 1
    /\ fnOut.packets[1].data[512] = 0

(***************************************************************************)
(* C17.  _adjust_payload_intensity on a payload of whole RGB triples: an   *)
(* intensity of 1.0 or more returns the payload unchanged, an intensity of *)
(* 0.0 or less returns a payload of the same length whose bytes are all 0. *)
(***************************************************************************)
C17_IntensityOneIdentityZeroBlack ==
    (fn = "_adjust_payload_intensity" /\ Len(fnIn.pixel_data) % 3 = 0) =>
        /\ fnOut.raised = ""
        /\ (fnIn.intensity >= 1000) => (fnOut.value = fnIn.pixel_data)
        /\ (fnIn.intensity <= 0) =>
              /\ Len(fnOut.value) = Len(fnIn.pixel_data)
              /\ \A k \in 1 .. Len(fnOut.value) : fnOut.value[k] = 0

\* A payload with a lit pixel was scaled by a negative intensity.
C17_Witness ==
    /\ fn = "_adjust_payload_intensity"
    /\ fnIn.intensity < 0
    /\ Len(fnIn.pixel_data) = 3 * MaxPixels
    /\ \E k \in 1 .. Len(fnIn.pixel_data) : fnIn.pixel_data[k] = 255
    /\ fnOut.raised = ""

\* The lookup policy: (channel, base intensity in per mille) of a pair.
PolicyTable(mode, hstate) ==
    CASE mode = "IDLE"   -> << 3, 300 >>
      [] mode = "SPEECH" -> << 1, 700 >>
      [] mode = "MUSIC" /\ hstate = "HIGHLIGHT" -> << 0, 1000 >>
      [] mode = "MUSIC" /\ hstate = "DROP"      -> << 0, 300 >>
      [] mode = "MUSIC" /\ hstate = "IDLE"      -> << 0, 700 >>

(***************************************************************************)
(* C18.  The lookup of the batch loop, of the realtime loop and of the     *)
(* daemon loop maps every (mode, highlight state) pair alike: IDLE to      *)
(* (3, 0.3), SPEECH to (1, 0.7), MUSIC+HIGHLIGHT to (0, 1.0), MUSIC+DROP   *)
(* to (0, 0.3), MUSIC+IDLE to (0, 0.7); so base intensity 1.0 is used only *)
(* for MUSIC with HIGHLIGHT.                                               *)
(***************************************************************************)
C18_LookupPolicy ==
    (fn = "lookup") =>
        LET want == PolicyTable(fnIn.mode, fnIn.hstate)
        IN  /\ \A l \in { fnOut.analysis, fnOut.realtime, fnOut.daemon } :
                  /\ << l.ch, l.intensity >> = want
                  /\ (l.intensity = 1000) =>
                        (fnIn.mode = "MUSIC" /\ fnIn.hstate = "HIGHLIGHT")

\* The lookup was applied to MUSIC with DROP.
C18_Witness ==
    /\ fn = "lookup"
    /\ fnIn.mode = "MUSIC"
    /\ fnIn.hstate = "DROP"
    /\ fnOut.realtime.ch = 0

(***************************************************************************)
(* Feature extraction: the loops' ticks (as in SpecLoop) and the two       *)
(* extraction functions applied on their own.  A streaming caller either   *)
(* passes a snapshot of its own or, as the loops do, the one the previous  *)
(* call returned.                                                          *)
(***************************************************************************)
MaxColumns == 2

\* Frames of 0, 1, 2 and 4 samples.
StreamFrames ==
    { [ n |-> 0, rms |-> 0, mag |-> <<0, 0, 0, 0>> ] }
        \cup { [ n |-> n, rms |-> k.rms, mag |-> k.mag ] :
                 n \in { 1, 2, 4 }, k \in FrameKinds }

Snapshots ==
    { None } \cup { Some([ shape |-> ShapeOf(n), band |-> k.mag ]) :
                      n \in { 1, 2, 4 }, k \in FrameKinds }

ColumnChoices == { <<0, 0>>, <<5, 5>>, <<2, 8>>, <<10, 0>> }

\* feat, mag = _frame_features_from_buffer(frame, sr, prev_mag).  fnIn.after
\* is the length of the frame of the call whose snapshot is passed on, and
\* -1 when the snapshot is the caller's own.
CallFrameFeatures ==
    /\ loop = "none"
    /\ \E frame \in StreamFrames :
          \/ \E prev \in Snapshots :
                /\ fnIn' = [ frame |-> frame, prev |-> prev, after |-> -1 ]
                /\ fnOut' = FrameFeatures(frame, prev)
          \/ /\ fn = "_frame_features_from_buffer"
             /\ fnIn' = [ frame |-> frame, prev |-> fnOut.mag,
                          after |-> fnIn.frame.n ]
             /\ fnOut' = FrameFeatures(frame, fnOut.mag)
    /\ fn' = "_frame_features_from_buffer"
    /\ UNCHANGED <<clock, modeVars, hlVars, fsVars, loopVars>>

\* flux = spectral_flux(S)
CallSpectralFlux ==
    /\ loop = "none"
    /\ fn = "none"
    /\ \E S \in SeqsUpTo(ColumnChoices, MaxColumns) :
          /\ fnIn' = [ S |-> S ]
          /\ fnOut' = [ value |-> SpectralFlux(S) ]
    /\ fn' = "spectral_flux"
    /\ UNCHANGED <<clock, modeVars, hlVars, fsVars, loopVars>>

FeatNext ==
    \/ LoopNext
    \/ CallFrameFeatures
    \/ CallSpectralFlux

InitFeat == InitLoop \/ InitEnc

SpecFeat == InitFeat /\ [][FeatNext]_vars

(***************************************************************************)
(* C19.  The spectral flux of a first frame is exactly 0: in the streaming *)
(* path whenever there is no previous magnitude snapshot or its shape      *)
(* differs from the current spectrum's (so on the first tick of a loop),   *)
(* and in the batch path for frame index 0.                                *)
(***************************************************************************)
C19_FirstFrameFluxZero ==
    /\ (/\ fn = "_frame_features_from_buffer"
        /\ \/ fnIn.prev = None
           \/ Val(fnIn.prev).shape # ShapeOf(fnIn.frame.n))
          => (fnOut.feat.flux = 0)
    /\ (fn = "spectral_flux" /\ Len(fnIn.S) >= 1)
          => (Len(fnOut.value) = Len(fnIn.S) /\ fnOut.value[1] = 0)
    /\ (ticks = 1) => (tick_feat # None /\ Val(tick_feat).flux = 0)

\* A frame came with a snapshot of another shape whose spectrum it exceeds.
C19_Witness ==
    /\ fn = "_frame_features_from_buffer"
    /\ fnIn.frame.n > 0
    /\ fnIn.prev # None
    /\ Val(fnIn.prev).shape # ShapeOf(fnIn.frame.n)
    /\ FluxBetween(Val(fnIn.prev).band, fnIn.frame.mag) > 0

(***************************************************************************)
(* C20.  Streaming feature extraction on an empty frame does not raise:    *)
(* it yields rms, band_low, band_mid, band_high and flux all 0 and no      *)
(* magnitude snapshot (None), so that the next non-empty frame, given that *)
(* snapshot, is treated as a first frame and gets flux 0.                  *)
(***************************************************************************)
C20_EmptyFrameAllZero ==
    (fn = "_frame_features_from_buffer") =>
        /\ (fnIn.frame.n = 0) =>
              /\ fnOut.feat = [ rms |-> 0, band_low |-> 0, band_mid |-> 0,
                                band_high |-> 0, flux |-> 0 ]
              /\ fnOut.mag = None
        /\ (fnIn.after = 0 /\ fnIn.frame.n > 0) =>
              /\ fnIn.prev = None
              /\ fnOut.feat.flux = 0

\* A non-silent frame followed an empty one and was given its snapshot.
C20_Witness ==
    /\ fn = "_frame_features_from_buffer"
    /\ fnIn.after = 0
    /\ fnIn.frame.n > 0
    /\ SumSeq(fnIn.frame.mag) > 0
    /\ fnOut.mag # None

(***************************************************************************)
(* C21.  On every update whose scoring argmax differs from the argmax of   *)
(* the previous update (or that is the first update), candidate_since is   *)
(* set to that update's now, also when the new argmax is the active mode;  *)
(* on an update whose argmax is the same as the previous update's,         *)
(* candidate_since is left as it was.  (runMode is the argmax of the       *)
(* latest update.)                                                         *)
(***************************************************************************)
C21_TimerResetOnArgmaxChange ==
    [][ /\ (runMode' # runMode) => (candidate_since' = Some(clock'))
        /\ (runMode' = runMode) => (candidate_since' = candidate_since) ]_vars

\* Under a positive hold the active mode is MUSIC and the argmax has just
\* come back to MUSIC after an interruption: the timer was restarted by an
\* update whose argmax is the active mode.
C21_Witness ==
    /\ mm_settings.MODE_HOLD_SECONDS > 0
    /\ current_mode = "MUSIC"
    /\ prevMode = "MUSIC"
    /\ runMode = Some("MUSIC")
    /\ runSince = Some(clock)
    /\ candidate_since = Some(clock)

(***************************************************************************)
(* C22.  If loading the changed configuration file fails during a tick,    *)
(* the classifiers keep the configuration they had, and the failed reload  *)
(* is not attempted again on later ticks while the file's modification     *)
(* time stays the same: after such a tick no reload is due.                *)
(***************************************************************************)
C22_FailedReloadNotRetried ==
    (loop = "daemon" /\ ticks >= 1 /\ file_mtime # None /\ ~ file_ok) =>
        /\ mm_settings = DefaultModeSettings
        /\ hl_settings = DefaultHighlightSettings
        /\ ~ ReloadDue

(***************************************************************************)
(* C23.  When the configuration file's modification time has changed and   *)
(* the new content loads, then from the end of that tick on the            *)
(* classifiers use the loaded snapshot (every key of the loaded dict has   *)
(* the loaded value in the classifier's settings), and no reload is due    *)
(* until the modification time changes again.                              *)
(***************************************************************************)
C23_ReloadedSnapshotInUse ==
    (loop = "daemon" /\ ticks >= 1 /\ file_mtime # None /\ file_ok) =>
        /\ ~ ReloadDue
        /\ \A k \in DOMAIN file_cfg : mm_settings[k] = file_cfg[k]

(***************************************************************************)
(* validate_config applied once (as tests/test_install_config.py applies   *)
(* it), on configurations drawn from small sets.                           *)
(***************************************************************************)
\* The largest number of fixtures in a configuration.
MaxFixtures == 2

\* Fixtures: start addresses around both ends of the universe, and the
\* channel modes of tests/test_install_config.py, "0" and a non-number.
FixtureChoices ==
    { [ start_address |-> s, channel_mode |-> m ] :
        s \in {0, 1, 2, DMX_LAST_ADDRESS - 1, DMX_LAST_ADDRESS,
               DMX_LAST_ADDRESS + 1},
        m \in {"0", "1", "3", "300", "rgb"} }

\* dmx_fixtures values: lists of fixtures, and a non-empty value that is
\* not a list.
FixtureInputs ==
    { [ is_list |-> TRUE, items |-> f ] : f \in SeqsUpTo(FixtureChoices, MaxFixtures) }
      \cup { [ is_list |-> FALSE,
               items |-> << [start_address |-> 1, channel_mode |-> "1"] >> ] }

\* The rest of a configuration: stage and pixel_channels.
RestInputs ==
    { [ stage_is_dict |-> TRUE,  is_list |-> TRUE,  items |-> << >> ],
      [ stage_is_dict |-> FALSE, is_list |-> TRUE,  items |-> << >> ],
      [ stage_is_dict |-> TRUE,  is_list |-> TRUE,
        items |-> << [pixel_count |-> PIXEL_COUNT_MAX] >> ],
      [ stage_is_dict |-> TRUE,  is_list |-> TRUE,
        items |-> << [pixel_count |-> 2000] >> ],
      [ stage_is_dict |-> TRUE,  is_list |-> FALSE,
        items |-> << [pixel_count |-> 1] >> ] }

\* One call validate_config(cfg).
CallValidateConfig ==
    /\ fn = "none"
    /\ \E fixtures \in FixtureInputs, rest \in RestInputs :
          LET cfg == [ stage_is_dict  |-> rest.stage_is_dict,
                       dmx_fixtures   |-> fixtures,
                       pixel_channels |-> [ is_list |-> rest.is_list,
                                            items   |-> rest.items ] ]
          IN  /\ fn' = "validate_config"
              /\ fnIn' = [ cfg |-> cfg ]
              /\ fnOut' = ValidateConfig(cfg)
    /\ UNCHANGED <<clock, modeVars, hlVars, fsVars, loopVars>>

CfgNext == CallValidateConfig

InitCfg ==
    /\ clock = 0
    /\ ModeFresh(DefaultModeSettings)
    /\ HLFresh(DefaultHighlightSettings)
    /\ FSFresh(DefaultFailsafeConfig)
    /\ NoLoop
    /\ NoCall

SpecCfg == InitCfg /\ [][CfgNext]_vars

\* Two fixtures of a dmx_fixtures list share a DMX address: some a in
\* 1..512 lies in [start_address, start_address + channels) of both.
FixturesOverlap(fixtures) ==
    \E i, j \in DOMAIN fixtures :
        /\ i < j
        /\ LET si == fixtures[i].start_address
               sj == fixtures[j].start_address
               ei == si + ModeChannels(fixtures[i].channel_mode)
               ej == sj + ModeChannels(fixtures[j].channel_mode)
           IN  Max(1, Max(si, sj)) < Min(DMX_LAST_ADDRESS + 1, Min(ei, ej))

(***************************************************************************)
(* C24.  validate_config rejects overlapping DMX fixtures: whenever the    *)
(* address ranges [start_address, start_address + channels) of two         *)
(* fixtures of the dmx_fixtures list share an address in 1..512, the       *)
(* result has ok = False and a duplicate-address error; and ok is True     *)
(* only when the error list is empty.                                      *)
(***************************************************************************)
C24_OverlappingFixturesRejected ==
    (fn = "validate_config") =>
        /\ (/\ fnIn.cfg.dmx_fixtures.is_list
            /\ FixturesOverlap(fnIn.cfg.dmx_fixtures.items))
              => /\ fnOut.ok = FALSE
                 /\ \E k \in DOMAIN fnOut.errors :
                       fnOut.errors[k].kind = "duplicate"
        /\ (fnOut.ok = TRUE) => (fnOut.errors = << >>)

\* The configuration of test_dmx_address_duplicate: a three-channel fixture
\* at address 1 and a one-channel fixture at address 2, nothing else wrong.
C24_Witness ==
    /\ fn = "validate_config"
    /\ fnIn.cfg.dmx_fixtures.items =
          << [start_address |-> 1, channel_mode |-> "3"],
             [start_address |-> 2, channel_mode |-> "1"] >>
    /\ fnOut.ok = FALSE
    /\ fnOut.errors = << [kind |-> "duplicate", value |-> 2] >>

(***************************************************************************)
(* C25 (as amended: MUSIC-mode updates).  After any update called with     *)
(* mode MUSIC whose resulting state differs from the state before the      *)
(* call, last_transition equals that call's now; an update called with     *)
(* another mode leaves last_transition as it was, also when it forces      *)
(* HIGHLIGHT or DROP to IDLE.                                              *)
(***************************************************************************)
C25_MusicTransitionStampsTimer ==
    [][ /\ (hl_state' # hl_state /\ Val(hlCall').mode = "MUSIC")
              => (last_transition_time' = Some(clock'))
        /\ (hlCall' # None /\ Val(hlCall').mode # "MUSIC")
              => (last_transition_time' = last_transition_time) ]_vars

\* C25 as stated: after any update whose resulting state differs from the
\* state before the call, last_transition equals that call's now.
C25_AnyTransitionStampsTimer ==
    [][ (hl_state' # hl_state) => (last_transition_time' = Some(clock')) ]_vars

\* A MUSIC-mode update under a positive cooldown has just left HIGHLIGHT or
\* DROP, later than the first MUSIC-mode update.
C25_Witness ==
    /\ hlCall # None
    /\ HLCallMode = "MUSIC"
    /\ hl_settings.HIGHLIGHT_COOLDOWN_SECONDS > 0
    /\ hlPrev # "IDLE"
    /\ hl_state # hlPrev
    /\ last_transition_time = Some(clock)
    /\ hlFirstMusic # None
    /\ Val(hlFirstMusic) < clock

(***************************************************************************)
(* C26.  Hysteresis.  An update in MUSIC mode leaves HIGHLIGHT only when   *)
(* score < threshold - hysteresis, and then for DROP if                    *)
(* score < drop_threshold and for IDLE otherwise; it leaves DROP only when *)
(* score >= drop_threshold + hysteresis, and then always for IDLE; a score *)
(* inside a hysteresis band (threshold - hysteresis <= score < threshold   *)
(* in HIGHLIGHT, drop_threshold <= score < drop_threshold + hysteresis in  *)
(* DROP) leaves the state unchanged; and no update moves DROP directly to  *)
(* HIGHLIGHT.                                                              *)
(***************************************************************************)
C26_HysteresisBands ==
    [][ /\ ~ (hl_state = "DROP" /\ hl_state' = "HIGHLIGHT")
        /\ (hlCall' # None /\ Val(hlCall').mode = "MUSIC") =>
              LET score == ComputeScore(Val(hlCall').feat, hl_settings)
                  th    == hl_settings.HIGHLIGHT_THRESHOLD
                  drop  == hl_settings.DROP_THRESHOLD
                  hy    == hl_settings.HIGHLIGHT_HYSTERESIS
              IN  /\ (hl_state = "HIGHLIGHT" /\ hl_state' # "HIGHLIGHT") =>
                        /\ score < th - hy
                        /\ hl_state' = IF score < drop THEN "DROP" ELSE "IDLE"
                  /\ (hl_state = "DROP" /\ hl_state' # "DROP") =>
                        /\ score >= drop + hy
                        /\ hl_state' = "IDLE"
                  /\ (hl_state = "HIGHLIGHT" /\ th - hy <= score /\ score < th)
                        => (hl_state' = "HIGHLIGHT")
                  /\ (hl_state = "DROP" /\ drop <= score /\ score < drop + hy)
                        => (hl_state' = "DROP") ]_vars

\* A MUSIC-mode update with a score inside the upper band has left the
\* detector in HIGHLIGHT although the (positive) cooldown had elapsed.
C26_Witness ==
    /\ hlCall # None
    /\ HLCallMode = "MUSIC"
    /\ hlPrev = "HIGHLIGHT"
    /\ hl_state = "HIGHLIGHT"
    /\ hl_settings.HIGHLIGHT_HYSTERESIS > 0
    /\ hl_settings.HIGHLIGHT_COOLDOWN_SECONDS > 0
    /\ HLCallScore < hl_settings.HIGHLIGHT_THRESHOLD
    /\ HLCallScore >= hl_settings.HIGHLIGHT_THRESHOLD
                         - hl_settings.HIGHLIGHT_HYSTERESIS
    /\ last_transition_time # None
    /\ clock - Val(last_transition_time)
           >= hl_settings.HIGHLIGHT_COOLDOWN_SECONDS

(***************************************************************************)
(* C27.  Lazy timer.  On a fresh detector the cooldown timer is unset;     *)
(* updates in a mode other than MUSIC never set it; the first MUSIC-mode   *)
(* update sets it to that call's now, and from then on it is modified only *)
(* by updates that change the state; so with a positive cooldown the first *)
(* MUSIC-mode update does not change the state, and no MUSIC-mode update   *)
(* changes it earlier than cooldown_seconds after the first one.           *)
(***************************************************************************)
C27_LazyTimer ==
    /\ [] (hlCall = None => last_transition_time = None)
    /\ [][ LET cooldown == hl_settings.HIGHLIGHT_COOLDOWN_SECONDS
               music    == hlCall' # None /\ Val(hlCall').mode = "MUSIC"
           IN  /\ (hlCall' # None /\ ~ music)
                     => (last_transition_time' = last_transition_time)
               /\ (music /\ hlFirstMusic = None)
                     => (last_transition_time' = Some(clock'))
               /\ (hlFirstMusic # None
                      /\ last_transition_time' # last_transition_time)
                     => (hl_state' # hl_state)
               /\ (music /\ cooldown > 0 /\ hlFirstMusic = None)
                     => (hl_state' = hl_state)
               /\ (music /\ cooldown > 0 /\ hl_state' # hl_state)
                     => (clock' - Val(hlFirstMusic) >= cooldown) ]_vars

(***************************************************************************)
(* C29 (as amended: the recovery timestamp is recorded only when a failure *)
(* was in progress).  After every on_frame_sent(now) the failure onset is  *)
(* unset and the stage is NORMAL; the recovery timestamp equals now if a   *)
(* failure was in progress at the call, and otherwise keeps the value it   *)
(* had (unset on a manager that never recovered).                          *)
(***************************************************************************)
C29_FrameSentClearsFailure ==
    [][ (fsOp' = Some("sent")) =>
          /\ failure_time' = None
          /\ fs_state' = "NORMAL"
          /\ recovery_time' = IF failure_time # None THEN Some(clock')
                              ELSE recovery_time ]_vars

\* C29 as stated: after every on_frame_sent(now), whether or not a failure
\* was in progress, the failure onset is unset, the recovery timestamp
\* equals now and the stage is NORMAL.
C29_FrameSentAlwaysStampsRecovery ==
    [][ (fsOp' = Some("sent")) =>
          /\ failure_time' = None
          /\ recovery_time' = Some(clock')
          /\ fs_state' = "NORMAL" ]_vars

\* on_frame_sent was called with no failure in progress, later than the
\* recovery from an earlier failure: the recovery timestamp is the earlier.
C29_Witness ==
    /\ fsOp = Some("sent")
    /\ failure_time = None
    /\ fs_state = "NORMAL"
    /\ recovery_time # None
    /\ Val(recovery_time) < clock

(***************************************************************************)
(* C30 (as amended: the fully-elapsed case presupposes                     *)
(* elapsed >= hold + ambient).  Black stage, with elapsed = now - failure  *)
(* onset at a get_intensity(now) during a failure: if black_seconds > 0    *)
(* and hold + ambient <= elapsed < hold + ambient + black, the stage is    *)
(* DIM_BLACK and intensity = ambient_intensity * (1 - (elapsed - hold -    *)
(* ambient) / black_seconds); if elapsed >= hold + ambient and either      *)
(* black_seconds <= 0 or elapsed >= hold + ambient + black, the stage is   *)
(* DIM_BLACK and the intensity is exactly 0.  (The interpolation is stated *)
(* multiplied out by black_seconds.)                                       *)
(***************************************************************************)
C30_BlackStageIntensity ==
    (fsOp = Some("get") /\ fsOnset # None) =>
        LET elapsed == clock - Val(fsOnset)
            h == fs_cfg.hold_seconds
            a == fs_cfg.ambient_seconds
            b == fs_cfg.black_seconds
        IN  /\ (b > 0 /\ h + a <= elapsed /\ elapsed < h + a + b) =>
                  /\ fs_state = "DIM_BLACK"
                  /\ Val(fsRet) * b
                        = fs_cfg.ambient_intensity * (b - (elapsed - h - a))
            /\ (elapsed >= h + a /\ (b <= 0 \/ elapsed >= h + a + b)) =>
                  /\ fs_state = "DIM_BLACK"
                  /\ fsRet = Some(0)

\* C30 as stated: the intensity is 0 in stage DIM_BLACK whenever
\* elapsed >= hold + ambient + black, or black_seconds <= 0 and
\* elapsed >= hold + ambient.
C30_BlackStageAsStated ==
    (fsOp = Some("get") /\ fsOnset # None) =>
        LET elapsed == clock - Val(fsOnset)
            h == fs_cfg.hold_seconds
            a == fs_cfg.ambient_seconds
            b == fs_cfg.black_seconds
        IN  /\ (b > 0 /\ h + a <= elapsed /\ elapsed < h + a + b) =>
                  /\ fs_state = "DIM_BLACK"
                  /\ Val(fsRet) * b
                        = fs_cfg.ambient_intensity * (b - (elapsed - h - a))
            /\ (elapsed >= h + a + b \/ (b <= 0 /\ elapsed >= h + a)) =>
                  /\ fs_state = "DIM_BLACK"
                  /\ fsRet = Some(0)

\* get_intensity was asked half way through the black stage of a failure
\* with non-zero hold and ambient stages: half the ambient intensity.
C30_Witness ==
    /\ fsOp = Some("get")
    /\ fsOnset # None
    /\ fs_cfg.hold_seconds > 0
    /\ fs_cfg.ambient_seconds > 0
    /\ fs_cfg.black_seconds = 2
    /\ clock - Val(fsOnset) = fs_cfg.hold_seconds + fs_cfg.ambient_seconds + 1
    /\ fs_state = "DIM_BLACK"
    /\ fsRet = Some(fs_cfg.ambient_intensity \div 2)

(***************************************************************************)
(* The choice of the candidate applied once: to the scores of a feature    *)
(* dict, and to score dicts drawn from a small set of values, ties         *)
(* included.                                                               *)
(***************************************************************************)
\* Scores: nothing, the high-band bonus alone, a bare rule, and above.
ScoreChoices == {0, 50, 100, 120, 150}

\* scores = self._score_modes(feat); candidate = max(...)[0]
CallScoreModes ==
    /\ fn = "none"
    /\ \E feat \in ModeFeats :
          /\ fn' = "_score_modes"
          /\ fnIn' = [ feat |-> feat ]
          /\ fnOut' = [ scores    |-> ScoreModes(feat, mm_settings),
                        candidate |-> Candidate(feat, mm_settings) ]
    /\ UNCHANGED <<clock, modeVars, hlVars, fsVars, loopVars>>

\* candidate = max(scores.items(), key=lambda x: x[1])[0] on a scores dict.
CallMax ==
    /\ fn = "none"
    /\ \E scores \in [ ModeSet -> ScoreChoices ] :
          /\ fn' = "max"
          /\ fnIn' = [ scores |-> scores ]
          /\ fnOut' = [ scores |-> scores, candidate |-> ArgMaxMode(scores) ]
    /\ UNCHANGED <<clock, modeVars, hlVars, fsVars, loopVars>>

ArgNext == CallScoreModes \/ CallMax

InitArg ==
    /\ clock = 0
    /\ ModeFresh(DefaultModeSettings)
    /\ HLFresh(DefaultHighlightSettings)
    /\ FSFresh(DefaultFailsafeConfig)
    /\ NoLoop
    /\ NoCall

SpecArg == InitArg /\ [][ArgNext]_vars

\* The position of a mode in the order IDLE, SPEECH, MUSIC.
TieOrder(m) == CASE m = "IDLE" -> 1 [] m = "SPEECH" -> 2 [] m = "MUSIC" -> 3

(***************************************************************************)
(* C28.  The candidate is a mode with the highest score; of several modes  *)
(* with the highest score it is the earliest in the order IDLE, SPEECH,    *)
(* MUSIC; in particular it is IDLE when every score is 0.                  *)
(***************************************************************************)
C28_TieBreakByOrder ==
    (fn \in {"_score_modes", "max"}) =>
        LET s == fnOut.scores
            c == fnOut.candidate
        IN  /\ c \in {"IDLE", "SPEECH", "MUSIC"}
            /\ \A m \in DOMAIN s : s[m] <= s[c]
            /\ \A m \in DOMAIN s : (s[m] = s[c]) => (TieOrder(c) <= TieOrder(m))
            /\ (\A m \in DOMAIN s : s[m] = 0) => (c = "IDLE")

\* SPEECH and MUSIC tied above IDLE, and SPEECH became the candidate.
C28_Witness ==
    /\ fn = "max"
    /\ fnIn.scores["SPEECH"] = fnIn.scores["MUSIC"]
    /\ fnIn.scores["IDLE"] < fnIn.scores["SPEECH"]
    /\ fnOut.candidate = "SPEECH"

(***************************************************************************)
(* C31.  get_intensity(now) changes neither the failure onset nor the      *)
(* recovery timestamp, and a get_intensity that directly follows another   *)
(* with the same now returns the same intensity and leaves the same stage. *)
(***************************************************************************)
C31_GetIntensityReadsOnly ==
    [][ (fsOp' = Some("get")) =>
          /\ failure_time' = failure_time
          /\ recovery_time' = recovery_time
          /\ (fsOp = Some("get") /\ clock' = clock) =>
                (fsRet' = fsRet /\ fs_state' = fs_state) ]_vars

\* Half way through the black stage of a failure that followed a recovery,
\* get_intensity was asked twice with the same now.
C31_Witness ==
    /\ fsRepeat
    /\ fsOp = Some("get")
    /\ failure_time # None
    /\ recovery_time # None
    /\ fs_state = "DIM_BLACK"
    /\ fsRet = Some(fs_cfg.ambient_intensity \div 2)

\* The unsigned big-endian numbers of 2 and of 4 bytes at position p of b.
U16At(b, p) == b[p] * 256 + b[p + 1]

U32At(b, p) ==
    b[p] * 16777216 + b[p + 1] * 65536 + b[p + 2] * 256 + b[p + 3]

\* Every packet of the frame send_frame chunked is a header of n bytes
\* followed by its payload slice; the header holds, big-endian, output_id,
\* pixel_count (payload length div 3), frame_index, chunk_index and
\* total_chunks (16, 16, 32, 16 and 16 bits); chunk_index counts 0, 1, ...
\* in emission order and the four others are the same in every packet.
FramedWithHeaderOf(n) ==
    LET pk == fnOut.packets
    IN  \A i \in DOMAIN pk :
          LET b == pk[i].bytes
          IN  /\ Len(b) = n + Len(pk[i].chunk)
              /\ SubSeq(b, n + 1, Len(b)) = pk[i].chunk
              /\ U16At(b, 1) = fnIn.output_id % 65536
              /\ U16At(b, 3) = Len(fnIn.pixel_payload) \div 3
              /\ U32At(b, 5) = fnIn.frame_index
              /\ U16At(b, 9) = i - 1
              /\ U16At(b, 11) = Len(pk)

(***************************************************************************)
(* C32 (as amended: the header is 12 bytes).  Every packet of one frame    *)
(* starts with the 12-byte big-endian header (output_id:16,                *)
(* pixel_count:16, frame_index:32, chunk_index:16, total_chunks:16);       *)
(* output_id, pixel_count (payload length div 3), frame_index and          *)
(* total_chunks are the same in all packets of the frame, and chunk_index  *)
(* takes the values 0, 1, ..., total_chunks - 1 in emission order.         *)
(***************************************************************************)
C32_PacketFraming ==
    (fn = "send_frame") => FramedWithHeaderOf(12)

\* C32 as stated, with a header of 10 bytes.
C32_PacketFramingHeader10 ==
    (fn = "send_frame") => FramedWithHeaderOf(10)

\* A frame with index 70000 and an output id above 16 bits went out in at
\* least three packets.
C32_Witness ==
    /\ fn = "send_frame"
    /\ fnIn.frame_index = 70000
    /\ fnIn.output_id = 65537
    /\ Len(fnOut.packets) >= 3
    /\ Len(fnOut.packets[3].bytes) > 12

(***************************************************************************)
(* C33.  Every packet built by send_dmx is exactly 530 bytes: the 8-byte   *)
(* preamble 'Art-Net' plus NUL, the 16-bit opcode 0x5000 and the 16-bit    *)
(* universe (both low byte first), the 16-bit protocol version 14 (high    *)
(* byte first), a zero sequence byte and a zero physical byte, a 16-bit    *)
(* big-endian length, then 512 data bytes; the length field always encodes *)
(* 512, whatever the length of the caller's data.                          *)
(***************************************************************************)
C33_ArtNetLayout ==
    (fn = "send_dmx") =>
        \A i \in DOMAIN fnOut.packets :
          LET b == fnOut.packets[i].bytes
          IN  /\ Len(b) = 530
              /\ SubSeq(b, 1, 8) = << 65, 114, 116, 45, 78, 101, 116, 0 >>
              /\ b[9] + 256 * b[10] = 20480
              /\ U16At(b, 11) = 14
              /\ b[13] = 0
              /\ b[14] = 0
              /\ b[15] + 256 * b[16] = fnIn.universe % 65536
              /\ U16At(b, 17) = 512
              /\ SubSeq(b, 19, 530) = fnOut.packets[i].data
              /\ Len(fnOut.packets[i].data) = 512

\* Two non-zero channels for universe 1 went out in a packet.
C33_Witness ==
    /\ fn = "send_dmx"
    /\ fnIn.dmx_data # None
    /\ Len(Val(fnIn.dmx_data)) = 2
    /\ Val(fnIn.dmx_data)[2] # 0
    /\ fnIn.universe = 1
    /\ Len(fnOut.packets) = 1
    /\ fnOut.packets[1].bytes[15] = 1
    /\ fnOut.packets[1].bytes[20] = Val(fnIn.dmx_data)[2]

(***************************************************************************)
(* C34.  Cooperative cancellation.  A cancellation that arrives while a    *)
(* tick is in progress (the daemon's running flag cleared by the signal    *)
(* handler, run_realtime's max_seconds reached) lets that tick run all its *)
(* stages through encode/send without an error; the stop conditions are    *)
(* looked at only when the next tick would start.                          *)
(***************************************************************************)
C34_CancelledTickCompletes ==
    LET cancelled ==
          \/ loop = "daemon" /\ ~ running
          \/ /\ loop = "realtime"
             /\ max_seconds # None
             /\ clock - start_time >= Val(max_seconds)
    IN  (ticks >= 1 /\ cancelled) =>
            /\ error = None
            /\ stages[Len(stages)] = "send"

(***************************************************************************)
(* C35.  Feature ranges: whatever the frame and the previous magnitude     *)
(* snapshot, the streaming feature vector has band_low, band_mid,          *)
(* band_high and flux each within [0,1] (0 .. 100 percent), the three band *)
(* ratios summing to at most 1, and rms >= 0.                              *)
(***************************************************************************)
C35_FeatureRanges ==
    fn = "_frame_features_from_buffer" =>
        LET feat == fnOut.feat
        IN  /\ feat.band_low \in 0 .. 100
            /\ feat.band_mid \in 0 .. 100
            /\ feat.band_high \in 0 .. 100
            /\ feat.band_low + feat.band_mid + feat.band_high <= 100
            /\ feat.rms >= 0
            /\ feat.flux \in 0 .. 100

(***************************************************************************)
(* C36.  A fresh detector fed only MUSIC-mode updates that all carry one   *)
(* constant score, under a hysteresis >= 0, changes state at most once     *)
(* over the whole run, whatever the thresholds and the cooldown, and then  *)
(* stays in that state.                                                    *)
(***************************************************************************)
C36_ConstantScoreSettlesOnce ==
    (/\ hlConst # None
     /\ hlConst # Some(-1)
     /\ hl_settings.HIGHLIGHT_HYSTERESIS >= 0)
        => /\ hlChanges <= 1
           /\ hlChanges = 0 => hl_state = "IDLE"
           /\ (hlChanges = 1 /\ hlPrev # "IDLE") => hl_state = hlPrev

\* A constant run at exactly the highlight threshold went to HIGHLIGHT and,
\* under a positive hysteresis, was updated again a full cooldown later.
C36_Witness ==
    /\ hlConst = Some(hl_settings.HIGHLIGHT_THRESHOLD)
    /\ hl_settings.HIGHLIGHT_HYSTERESIS > 0
    /\ hl_settings.HIGHLIGHT_COOLDOWN_SECONDS > 0
    /\ hlChanges = 1
    /\ hlPrev = "HIGHLIGHT"
    /\ hl_state = "HIGHLIGHT"
    /\ clock - Val(hlLastTrans) >= hl_settings.HIGHLIGHT_COOLDOWN_SECONDS

\* The place of a stage in the order of a failure.
StageRank(stage) ==
    CASE stage = "LAST_HOLD"   -> 1
      [] stage = "DIM_AMBIENT" -> 2
      [] stage = "DIM_BLACK"   -> 3
      [] OTHER                 -> 0

C38_OnsetUnsetIffNormal ==
    (failure_time = None) <=> (fs_state = "NORMAL")

\* After a recovery from the black stage: the onset is unset again and the
\* stage attribute is back at NORMAL without any get_intensity in between.
C38_Witness ==
    /\ fsOp = Some("sent")
    /\ fsRecovered = Some("DIM_BLACK")
    /\ failure_time = None
    /\ fs_state = "NORMAL"

(***************************************************************************)
(* C39.  A feature dict as the realtime and daemon loops pass it carries   *)
(* no onset_density, which is then read as 0: with a non-negative onset    *)
(* threshold the score of MUSIC is at most 0.5, and an update with such a  *)
(* dict makes MUSIC the active mode only when band_high > 0.5, rms is not  *)
(* below the silence threshold and SPEECH is unscored.                     *)
(***************************************************************************)
C39_StreamingMusicOnlyByHighBand ==
    (/\ mmFeat # None
     /\ "onset_density" \notin DOMAIN Val(mmFeat)
     /\ mm_settings.MUSIC_ONSET_DENSITY >= 0)
        => LET feat   == Val(mmFeat)
               scores == ScoreModes(feat, mm_settings)
           IN  /\ scores["MUSIC"] <= 50
               /\ (current_mode = "MUSIC" /\ prevMode # "MUSIC")
                    => /\ feat.band_high > 50
                       /\ feat.rms >= mm_settings.RMS_SILENCE_THRESHOLD
                       /\ scores["SPEECH"] = 0

\* An update with a streaming dict switched the active mode to MUSIC after
\* a positive hold.
C39_Witness ==
    /\ mmFeat # None
    /\ "onset_density" \notin DOMAIN Val(mmFeat)
    /\ mm_settings.MODE_HOLD_SECONDS > 0
    /\ current_mode = "MUSIC"
    /\ prevMode # "MUSIC"
    /\ ScoreModes(Val(mmFeat), mm_settings)["MUSIC"] = 50

\* The 512 bytes send_dmx works on: its data padded with zeros.
PaddedDmx ==
    LET data == IF fnIn.dmx_data = None THEN << >> ELSE Val(fnIn.dmx_data)
    IN  data \o [ i \in 1 .. DMX_CHANNELS - Len(data) |-> 0 ]

(***************************************************************************)
(* C40.  With SIM_MODE true, a send_frame or send_dmx whose simulator call *)
(* succeeds hands its payload to the simulator and returns without         *)
(* building or sending any packet; when the import or the call of the      *)
(* simulator raises, the error is logged and the frame goes through the    *)
(* normal packet path: chunked (send_frame) or built (send_dmx), and sent, *)
(* or only logged under dry_run.                                           *)
(***************************************************************************)
C40_SimulatorRouting ==
    /\ (fn = "send_frame" /\ fnIn.sim_mode) =>
          IF fnIn.sim_ok
          THEN /\ fnOut.displayed = << [ output_id |-> fnIn.output_id,
                                         payload |-> fnIn.pixel_payload,
                                         frame_index |-> fnIn.frame_index ] >>
               /\ fnOut.packets = << >>
               /\ ~ fnOut.on_wire
               /\ ~ fnOut.warned
          ELSE /\ fnOut.warned
               /\ fnOut.displayed = << >>
               /\ ChunkedBy(Max(1, fnIn.mtu - HEADER_SIZE))
               /\ fnOut.on_wire = ~ fnIn.dry_run
    /\ (fn = "send_dmx" /\ fnIn.sim_mode /\ fnOut.raised = "") =>
          IF fnIn.sim_ok
          THEN /\ fnOut.displayed = << [ universe |-> fnIn.universe,
                                         data |-> PaddedDmx ] >>
               /\ fnOut.packets = << >>
               /\ ~ fnOut.on_wire
               /\ ~ fnOut.warned
          ELSE /\ fnOut.warned
               /\ fnOut.displayed = << >>
               /\ Len(fnOut.packets) = 1
               /\ fnOut.packets[1].data = PaddedDmx
               /\ fnOut.on_wire = ~ fnIn.dry_run

\* A frame whose simulator call failed went to the socket in several packets.
C40_Witness ==
    /\ fn = "send_frame"
    /\ fnIn.sim_mode
    /\ ~ fnIn.sim_ok
    /\ ~ fnIn.dry_run
    /\ fnOut.warned
    /\ Len(fnOut.packets) >= 2
    /\ fnOut.on_wire


=============================================================================
